---- MODULE Spec2Model ----
(***************************************************************************)
(* DetectFlow: the checkpointed task orchestrator                          *)
(* (src/detectflow/process/orchestrator.py) and the resilient SQLite       *)
(* writer (src/detectflow/manipulators/database_manipulator.py).           *)
(*                                                                         *)
(* Orchestrator: one orchestrating thread ("main") runs start_processing;  *)
(* max_workers worker threads run _worker_process.  Threads interleave at  *)
(* the granularity of the steps below (CPython may switch threads between  *)
(* any two bytecodes and releases the GIL around file I/O).                *)
(***************************************************************************)
EXTENDS Integers, Sequences, FiniteSets, TLC

(***************************************************************************)
(* Bounds of the model.                                                    *)
(***************************************************************************)
MaxWorkers == 2        \* largest max_workers tried
MaxBatchSize == 2      \* largest batch_size tried
MaxReports == 2        \* handle_worker_update calls in a run without process death
MaxCrashReports == 1   \* handle_worker_update calls in a run with process death
MaxFaults == 1         \* storage locations that may start failing during a run
MaxCrashes == 1        \* process deaths followed by a restart
MaxRaises == 1         \* callback invocations that raise
MaxPoolReports == 1    \* handle_worker_update calls in a run with raising callbacks
MaxUpdates == 2        \* handle_worker_update calls in a run with arbitrary updates

WorkerIds == 1..MaxWorkers
Threads == {0} \cup WorkerIds          \* 0 is the orchestrating thread

DONE == -1             \* status of a completely processed file

\* The values a callback passes as status: a frame index or "complete".
ReportVals == {1, DONE}

(***************************************************************************)
(* Python dicts whose order matters (TaskRecord.status keeps the listing   *)
(* order of the files) are sequences of [file, st] entries.                *)
(***************************************************************************)
DictHas(d, k) == \E i \in 1..Len(d) : d[i].file = k

DictGet(d, k) == d[CHOOSE i \in 1..Len(d) : d[i].file = k].st

DictSet(d, k, v) ==
    IF DictHas(d, k)
    THEN [i \in 1..Len(d) |-> IF d[i].file = k THEN [file |-> k, st |-> v] ELSE d[i]]
    ELSE Append(d, [file |-> k, st |-> v])

DictAllDone(d) == \A i \in 1..Len(d) : d[i].st = DONE

\* progress is a flat mapping file -> status; its order is never read.
MapSet(m, k, v) == [x \in (DOMAIN m) \cup {k} |-> IF x = k THEN v ELSE m[x]]

EmptyMap == [x \in {} |-> 0]

(***************************************************************************)
(* The inputs: directories and the media files listed in each.             *)
(***************************************************************************)
Listing(dir) ==
    IF dir = "A" THEN <<"a1", "a2", "a3">>
    ELSE IF dir = "B" THEN <<"b1">>
    ELSE <<>>

Directories == <<"A", "B">>

AllFiles == UNION {{Listing(Directories[i])[j] : j \in 1..Len(Listing(Directories[i]))}
                   : i \in 1..Len(Directories)}

\* _prepare_initial_status: every listed file starts at 0.
PrepareInitialStatus(dir) ==
    [j \in 1..Len(Listing(dir)) |-> [file |-> Listing(dir)[j], st |-> 0]]

InputFlags == [py |-> "tuple", items |-> <<FALSE, FALSE, TRUE, FALSE>>]

\* The checkpoint document _create_new_checkpoint builds.
NewCheckpoint(bs, mw) ==
    [task_name |-> "job",
     input_type_flags |-> InputFlags,
     batch_size |-> bs,
     max_workers |-> mw,
     tasks |-> [i \in 1..Len(Directories) |->
                   [directory |-> Directories[i],
                    status |-> PrepareInitialStatus(Directories[i])]],
     progress |-> EmptyMap]

(***************************************************************************)
(* json.dump / json.load: a tuple is written as a list; _initialize_       *)
(* checkpoint converts the list back to a tuple.                           *)
(***************************************************************************)
JsonDump(doc) ==
    [doc EXCEPT !.input_type_flags = [py |-> "list", items |-> @.items]]

\* A load that leaves the flags as json.load returned them.
ListKept(doc) == doc

ListToTuple(doc) ==
    IF doc.input_type_flags.py = "list"
    THEN [doc EXCEPT !.input_type_flags = [py |-> "tuple", items |-> @.items]]
    ELSE doc

\* _validate_checkpoint_format on a parsed document of the shape this
\* program writes.
ValidateCheckpointFormat(doc) ==
    /\ doc.input_type_flags.py = "tuple"
    /\ Len(doc.input_type_flags.items) = 4
    /\ doc.batch_size > 0
    /\ doc.max_workers > 0

(***************************************************************************)
(* The writer's world: tables, rows, the hash suffixes of dump files.      *)
(***************************************************************************)
MaxRows == 3           \* rows handed to the writer in one run
MaxDbBatchSize == 2    \* largest DatabaseManipulator.batch_size tried
NumHashes == 2         \* distinct values get_numeric_hash returns
MaxFlushCalls == 2     \* direct calls of flush_batch in one run
MaxExecRetries == 2    \* largest `retries` a caller of safe_execute passes
MaxExecRows == 2       \* rows of the largest list handed to safe_execute
MaxExecCalls == 2      \* direct calls of safe_execute in one run
MaxGatherPasses == 2   \* calls of gather_dump_data in one run
MaxGatherRows == 2     \* rows of this database found in the dumps folder

Tables == {"t1", "t2"}
HashVals == 1..NumHashes

NoCall == [op |-> "none", raised |-> FALSE, flushed |-> FALSE]

\* The threads that call safe_execute on one writer at the same time.
ExecThreads == {1, 2}

NoExecCall == [table |-> "", data |-> [kind |-> "none", rows |-> <<>>], retries |-> 0,
               use_transaction |-> FALSE, enable_emergency_dumps |-> FALSE,
               sustain_emergency_dumps |-> FALSE]

\* A thread that is not in safe_execute.
NoExec == [pc |-> "idle", call |-> NoExecCall, nerr |-> 0, attempt |-> 0,
           own |-> FALSE, raised |-> "no"]

\* Database names, split at "_": self._db_name of this writer, and those of
\* other writers that dump into the same folder.
DbName == <<"db">>
ForeignDbNames == {<<"a", "db">>, <<"other">>}
ForeignRow == MaxRows + 1

\* The CSV files other writers can have left: one per database, one row each.
ForeignFiles == {[db |-> n, hash |-> 1] : n \in ForeignDbNames}
NoForeign == [f \in ForeignFiles |-> <<>>]

(***************************************************************************)
(* Files on disk.                                                          *)
(***************************************************************************)
Primary == "primary"

\* _generate_fallback_directories: three home directories, then scratch.
FallbackDirectories == <<"brno2", "plzen1", "brno1-cerit", "scratch">>

WritePaths == <<Primary>> \o FallbackDirectories

Paths == {WritePaths[i] : i \in 1..Len(WritePaths)}

Absent == [kind |-> "absent", data |-> <<>>]
Truncated == [kind |-> "empty", data |-> <<>>]
\* A file that is no JSON document: a text followed by the tail of a longer
\* one; n is its length.
CorruptOf(n) == [kind |-> "corrupt", data |-> <<[len |-> n]>>]
FileOf(doc) == [kind |-> "doc", data |-> <<doc>>]

\* The task queue holds Task objects and the None sentinel.
NoneItem == [kind |-> "none", directory |-> "", files |-> <<>>, status |-> <<>>]

Task(directory, video_files, status) ==
    [kind |-> "task", directory |-> directory, files |-> video_files, status |-> status]

VARIABLES
    alive,            \* "up": process running, "down": process died, "failed": construction raised
    checkpoint_data,  \* Orchestrator.checkpoint_data (in memory)
    batch_size,       \* Orchestrator.batch_size
    max_workers,      \* Orchestrator.max_workers
    disk,             \* path -> file content
    failing,          \* paths whose open(..., 'w') raises
    task_queue,       \* Orchestrator.task_queue (FIFO)
    pc,               \* thread -> position
    ti, fi,           \* _manage_tasks: record index, next status entry to read
    sent,             \* start_processing: sentinels put so far
    cur,              \* worker -> the item it dequeued
    nrep,             \* history: handle_worker_update calls made so far
    reportLimit,      \* the number of handle_worker_update calls the callbacks make, at most
    wbuf, wpath,      \* thread -> the open checkpoint file: serialized text, location
    putLog,           \* history: the Tasks in the order _queue_batch put them
    initDoc,          \* history: the checkpoint as loaded or created at construction
    noneGot, nonePut, \* history: worker -> sentinels dequeued / re-enqueued
    crashes, faults,  \* history: counters that bound the environment
    force_restart,    \* Orchestrator.force_restart
    cbLog,            \* history: the Tasks passed to the callback, in this order
    nraise,           \* history: callback invocations that raised
    ncritical,        \* history: logging.critical calls of the checkpoint write
    lastUpdate        \* history: the last handle_worker_update call and how it ended

orchVars == <<alive, checkpoint_data, batch_size, max_workers, disk, failing, task_queue,
              pc, ti, fi, sent, cur, nrep, reportLimit, wbuf, wpath,
              putLog, initDoc, noneGot, nonePut, crashes, faults,
              force_restart, cbLog, nraise, ncritical, lastUpdate>>

\* The DatabaseManipulator instance, its database file and the dumps folder.
VARIABLES
    conn,             \* DatabaseManipulator.conn: "none" or "open"
    batch_data,       \* DatabaseManipulator.batch_data: the buffered rows
    batch_table,      \* DatabaseManipulator.batch_table ("None" before the first add)
    db_batch_size,    \* DatabaseManipulator.batch_size
    committed,        \* the database: bag of <<table, row>> committed
    dumps,            \* the dumps folder: hash suffix -> rows of that CSV file
    buffered,         \* history: the rows add_to_batch appended to the buffer
    nextRow,          \* history: the next row a caller hands in
    nflush,           \* history: direct calls of flush_batch or safe_execute so far
    submitted,        \* history: row -> the table add_to_batch was given with it
    foreign,          \* the dumps folder: CSV files other databases' writers left there
    spilt,            \* history: row -> how many times dump_to_csv wrote it
    passes,           \* history: delete_dumps of each gather_dump_data call so far
    lock,             \* DatabaseManipulator.lock: 0, or the thread that holds it
    connOwner,        \* the thread that created conn (sqlite3 checks it), 0 if none
    sx,               \* per thread in safe_execute: its call and where it stands
    lastCall          \* history: the last writer call and how it ended

dbVars == <<conn, batch_data, batch_table, db_batch_size, committed, dumps, buffered,
            nextRow, nflush, submitted, foreign, spilt, passes, lock, connOwner, sx,
            lastCall>>

sxVars == <<lock, connOwner, sx>>

vars == <<orchVars, dbVars>>

planVars == <<ti, fi>>
envVars == <<failing, crashes, faults>>
cfgVars == <<batch_size, max_workers, initDoc, reportLimit, force_restart>>
histVars == <<cbLog, nraise, ncritical, lastUpdate>>
runVars == <<cfgVars, dbVars, histVars>>
noneVars == <<noneGot, nonePut>>
writeVars == <<wbuf, wpath>>

ActiveWorkers == 1..max_workers

(***************************************************************************)
(* Construction.  The state after __init__ : a checkpoint was loaded from  *)
(* the primary path, or created fresh (force_restart) and written.         *)
(***************************************************************************)
\* Statuses (a1, a2, a3, b1) of the checkpoints a run may be constructed on:
\* fresh, and left behind by earlier runs.
InitStatuses ==
    {<<0, 0, 0, 0>>, <<DONE, 0, 1, 0>>, <<DONE, DONE, DONE, 0>>, <<0, DONE, 0, DONE>>}

WithStatuses(doc, sts) ==
    [doc EXCEPT !.tasks =
        [i \in 1..Len(doc.tasks) |->
            [doc.tasks[i] EXCEPT !.status =
                [j \in 1..Len(doc.tasks[i].status) |->
                    [file |-> doc.tasks[i].status[j].file,
                     st |-> sts[IF i = 1 THEN j ELSE Len(doc.tasks[1].status) + j]]]]]]

ThreadsIdle == [t \in Threads |-> IF t = 0 THEN "m_start" ELSE "off"]

\* _write_checkpoint run to completion with no other thread alive (during
\* construction): the first location whose open succeeds receives the text.
WriteCheckpointAlone(d, doc, fail) ==
    LET ok == {i \in 1..Len(WritePaths) : WritePaths[i] \notin fail}
    IN  IF ok = {} THEN d
        ELSE LET i == CHOOSE k \in ok : \A j \in ok : k <= j
             IN  [d EXCEPT ![WritePaths[i]] = FileOf(JsonDump(doc))]

NoFiles == [p \in Paths |-> Absent]

AllFail(fail) == \A i \in 1..Len(WritePaths) : WritePaths[i] \in fail

\* No handle_worker_update call was made yet.
NoUpdate ==
    [update |-> [keys |-> {}, dty |-> "", fty |-> "", sty |-> "",
                 directory |-> "", file |-> "", status |-> 0],
     raised |-> FALSE, n |-> 0]

\* The thread-local and queue state of a newly constructed Orchestrator.
FreshRun(doc) ==
    /\ checkpoint_data = doc
    /\ task_queue = <<>>
    /\ pc = ThreadsIdle
    /\ ti = 1 /\ fi = 0
    /\ sent = 0
    /\ cur = [t \in Threads |-> NoneItem]
    /\ wbuf = [t \in Threads |-> Absent]
    /\ wpath = [t \in Threads |-> Primary]
    /\ putLog = <<>>
    /\ initDoc = doc
    /\ noneGot = [t \in Threads |-> 0]
    /\ nonePut = [t \in Threads |-> 0]
    /\ cbLog = <<>>

\* The same, as the effect of a (re)construction.
ResetRun(doc) ==
    /\ checkpoint_data' = doc
    /\ task_queue' = <<>>
    /\ pc' = ThreadsIdle
    /\ ti' = 1 /\ fi' = 0
    /\ sent' = 0
    /\ cur' = [t \in Threads |-> NoneItem]
    /\ wbuf' = [t \in Threads |-> Absent]
    /\ wpath' = [t \in Threads |-> Primary]
    /\ putLog' = <<>>
    /\ initDoc' = doc
    /\ noneGot' = [t \in Threads |-> 0]
    /\ nonePut' = [t \in Threads |-> 0]
    /\ cbLog' = <<>>

\* A dumps folder without files of this database.
NoDumps == [dumps |-> [h \in HashVals |-> <<>>], spilt |-> [r \in 1..MaxRows |-> 0],
            submitted |-> EmptyMap]

\* DatabaseManipulator.__init__ in a dumps folder that holds the CSV files
\* `others` of other databases and the files left.dumps of earlier runs on
\* this database.
WriterInitIn(size, others, left) ==
    /\ foreign = others
    /\ spilt = left.spilt
    /\ passes = <<>>
    /\ lock = 0
    /\ connOwner = 0
    /\ sx = [t \in ExecThreads |-> NoExec]
    /\ conn = "none"
    /\ batch_data = <<>>
    /\ batch_table = "None"
    /\ db_batch_size = size
    /\ committed = EmptyMap
    /\ dumps = left.dumps
    /\ buffered = {}
    /\ nextRow = 1
    /\ nflush = 0
    /\ submitted = left.submitted
    /\ lastCall = NoCall

\* DatabaseManipulator.__init__, nobody else using the dumps folder.
WriterInit(size) == WriterInitIn(size, NoForeign, NoDumps)

OrchInit(doc, bs, mw, fail, limit) ==
    /\ alive = "up"
    /\ batch_size = bs
    /\ max_workers = mw
    /\ disk = WriteCheckpointAlone(NoFiles, doc, fail)
    /\ failing = fail
    /\ FreshRun(doc)
    /\ nrep = 0
    /\ reportLimit = limit
    /\ crashes = 0
    /\ faults = 0
    /\ nraise = 0
    /\ ncritical = (IF AllFail(fail) THEN 1 ELSE 0)
    /\ lastUpdate = NoUpdate

\* The orchestrator runs; the writer is constructed and not used.
InitWith(doc, bs, mw, fail, limit) ==
    /\ OrchInit(doc, bs, mw, fail, limit)
    /\ WriterInit(1)

\* A run on a checkpoint found at the primary path: fresh, or left by
\* earlier runs.
Init ==
    \E bs \in 1..MaxBatchSize, mw \in 1..MaxWorkers, sts \in InitStatuses :
        /\ InitWith(WithStatuses(NewCheckpoint(bs, mw), sts), bs, mw, {}, MaxReports)
        /\ force_restart = FALSE

(***************************************************************************)
(* start_processing / _start_workers                                       *)
(***************************************************************************)
StartWorkers ==
    /\ alive = "up" /\ pc[0] = "m_start"
    /\ pc' = [t \in Threads |->
                IF t = 0 THEN "m_scan" ELSE IF t \in ActiveWorkers THEN "get" ELSE pc[t]]
    /\ UNCHANGED <<alive, checkpoint_data, disk, task_queue, planVars, sent, cur, nrep,
                   writeVars, putLog, noneVars, envVars, runVars>>

(***************************************************************************)
(* _manage_tasks: one step per batch.  A step reads status entries from    *)
(* the current position until a batch is full or the record ends, and      *)
(* performs the task_queue.put of _queue_batch, which directly follows.    *)
(***************************************************************************)
Tasks == checkpoint_data.tasks

\* An entry of tasks is a dict with the keys directory and status, as the
\* program writes it, or it is not: an entry that is no dict has the field
\* py (its type), a dict may lack directory, and a status that is no dict
\* is told by the field py_status (its type).
IsRecord(task) == "py" \notin DOMAIN task

\* `not directory or not isinstance(status, dict)`, directory being
\* task.get('directory')
InvalidTaskData(task) ==
    \/ "directory" \notin DOMAIN task
    \/ task.directory = ""
    \/ "py_status" \in DOMAIN task

\* The local directory of _manage_tasks is bound: an earlier iteration
\* assigned it (line 299), which every iteration on a dict does.
DirectoryBound == \E j \in 1..(ti - 1) : IsRecord(Tasks[j])

\* Faulty variants of the inner loop, used to show that the properties of
\* the planner below depend on it: one that does not skip completed files,
\* one that closes a batch one file late.
RECURSIVE ScanStatusAll(_, _, _, _, _)
ScanStatusAll(status, j, b, bst, bs) ==
    IF j > Len(status)
    THEN [next |-> j, files |-> b, status |-> bst]
    ELSE LET nb == Append(b, status[j].file)
             ns == Append(bst, status[j])
         IN  IF Len(nb) >= bs
             THEN [next |-> j + 1, files |-> nb, status |-> ns]
             ELSE ScanStatusAll(status, j + 1, nb, ns, bs)

RECURSIVE ScanStatusLate(_, _, _, _, _)
ScanStatusLate(status, j, b, bst, bs) ==
    IF j > Len(status)
    THEN [next |-> j, files |-> b, status |-> bst]
    ELSE IF status[j].st # DONE
         THEN LET nb == Append(b, status[j].file)
                  ns == Append(bst, status[j])
              IN  IF Len(nb) > bs
                  THEN [next |-> j + 1, files |-> nb, status |-> ns]
                  ELSE ScanStatusLate(status, j + 1, nb, ns, bs)
         ELSE ScanStatusLate(status, j + 1, b, bst, bs)

\* The inner loop `for file, progress in status.items()` from entry j on,
\* with the locals batch (b) and batch_status (bst), up to the point where
\* _queue_batch is called or the loop ends.
RECURSIVE ScanStatus(_, _, _, _, _)
ScanStatus(status, j, b, bst, bs) ==
    IF j > Len(status)
    THEN [next |-> j, files |-> b, status |-> bst]
    ELSE IF status[j].st # DONE
         THEN LET nb == Append(b, status[j].file)
                  ns == Append(bst, status[j])
              IN  IF Len(nb) >= bs
                  THEN [next |-> j + 1, files |-> nb, status |-> ns]
                  ELSE ScanStatus(status, j + 1, nb, ns, bs)
         ELSE ScanStatus(status, j + 1, b, bst, bs)

\* _queue_batch, first statement: task_queue.put(task)
QueuePut(task, nti, nfi) ==
    /\ task_queue' = Append(task_queue, task)
    /\ putLog' = Append(putLog, task)
    /\ cur' = [cur EXCEPT ![0] = task]
    /\ pc' = [pc EXCEPT ![0] = "m_mark"]
    /\ ti' = nti /\ fi' = nfi

PlanSkip(nti) ==
    /\ ti' = nti /\ fi' = 0
    /\ UNCHANGED <<task_queue, putLog, cur, pc>>

\* The handler of line 322 reads the unbound local directory: the
\* UnboundLocalError of line 323 leaves _manage_tasks and start_processing.
PlanRaise ==
    /\ pc' = [pc EXCEPT ![0] = "m_raised"]
    /\ UNCHANGED <<task_queue, putLog, cur, planVars>>

\* An entry that is no dict: task.get raises AttributeError (line 299),
\* which is caught at line 322 and logged, and the loop goes on.
ManageEntry(task) ==
    IF DirectoryBound THEN PlanSkip(ti + 1) ELSE PlanRaise

\* A faulty variant of the outer loop's body, used to show that the
\* properties of the planner below depend on it: the files left over after the
\* last full batch of a record are not queued (no `if batch:`).
ManageRecordDropTail(task) ==
    IF fi = 0 /\ (InvalidTaskData(task) \/ DictAllDone(task.status))
    THEN PlanSkip(ti + 1)
    ELSE LET r == ScanStatus(task.status, IF fi = 0 THEN 1 ELSE fi, <<>>, <<>>,
                             batch_size)
         IN  IF r.files = <<>> \/ Len(r.files) < batch_size
             THEN PlanSkip(ti + 1)
             ELSE QueuePut(Task(task.directory, r.files, r.status), ti, r.next)

\* One record of the outer loop at position (ti, fi); fi = 0 is the start of
\* the record (the validity check and the all-complete check).
ManageRecord(task) ==
    IF ~IsRecord(task) THEN ManageEntry(task)
    ELSE IF fi = 0 /\ (InvalidTaskData(task) \/ DictAllDone(task.status))
    THEN PlanSkip(ti + 1)
    ELSE LET r == ScanStatus(task.status, IF fi = 0 THEN 1 ELSE fi, <<>>, <<>>,
                             batch_size)
         IN  IF r.files = <<>>
             THEN PlanSkip(ti + 1)
             ELSE IF r.next > Len(task.status) /\ Len(r.files) < batch_size
                  THEN QueuePut(Task(task.directory, r.files, r.status), ti + 1, 0)
                  ELSE QueuePut(Task(task.directory, r.files, r.status), ti, r.next)

ManageTasksStep ==
    /\ alive = "up" /\ pc[0] = "m_scan"
    /\ IF ti > Len(Tasks)
       THEN /\ pc' = [pc EXCEPT ![0] = "m_sentinel"]
            /\ UNCHANGED <<task_queue, putLog, cur, planVars>>
       ELSE ManageRecord(Tasks[ti])
    /\ UNCHANGED <<alive, checkpoint_data, disk, sent, nrep, writeVars, noneVars,
                   envVars, runVars>>

RECURSIVE MarkQueued(_, _)
MarkQueued(progress, files) ==
    IF files = <<>> THEN progress
    ELSE MarkQueued(MapSet(progress, Head(files), 0), Tail(files))

\* _queue_batch, the loop after the put: progress[file] = 0 for the batch.
QueueBatchMark ==
    /\ alive = "up" /\ pc[0] = "m_mark"
    /\ checkpoint_data' =
         [checkpoint_data EXCEPT !.progress = MarkQueued(@, cur[0].files)]
    /\ pc' = [pc EXCEPT ![0] = "w_open"]
    /\ cur' = [cur EXCEPT ![0] = NoneItem]
    /\ UNCHANGED <<alive, disk, task_queue, planVars, sent, nrep, writeVars,
                   putLog, noneVars, envVars, runVars>>

(***************************************************************************)
(* _write_checkpoint / _attempt_fallback_checkpoint_write.                 *)
(* open(path, 'w') truncates the file; json.dump fills the file object's   *)
(* buffer; leaving the with-block flushes the buffer to the file.          *)
(***************************************************************************)
\* A faulty variant: the locations are tried from the last one.
LastWritable ==
    IF \E i \in 1..Len(WritePaths) : WritePaths[i] \notin failing
    THEN CHOOSE i \in 1..Len(WritePaths) :
            /\ WritePaths[i] \notin failing
            /\ \A j \in (i + 1)..Len(WritePaths) : WritePaths[j] \in failing
    ELSE 0

\* The first location whose open succeeds: the primary path, then the
\* fallback directories in order; 0 when every open raises.
FirstWritable ==
    IF \E i \in 1..Len(WritePaths) : WritePaths[i] \notin failing
    THEN CHOOSE i \in 1..Len(WritePaths) :
            /\ WritePaths[i] \notin failing
            /\ \A j \in 1..(i - 1) : WritePaths[j] \in failing
    ELSE 0

AfterWrite(t) == IF t = 0 THEN "m_scan" ELSE "cb"

WriteOpen(t) ==
    /\ alive = "up" /\ pc[t] = "w_open"
    /\ IF FirstWritable = 0
       THEN /\ pc' = [pc EXCEPT ![t] = AfterWrite(t)]
            /\ ncritical' = ncritical + 1
            /\ UNCHANGED <<disk, writeVars>>
       ELSE /\ disk' = [disk EXCEPT ![WritePaths[FirstWritable]] = Truncated]
            /\ wbuf' = [wbuf EXCEPT ![t] = FileOf(JsonDump(checkpoint_data))]
            /\ wpath' = [wpath EXCEPT ![t] = WritePaths[FirstWritable]]
            /\ pc' = [pc EXCEPT ![t] = "w_close"]
            /\ UNCHANGED ncritical
    /\ UNCHANGED <<alive, checkpoint_data, task_queue, planVars, sent, cur, nrep,
                   putLog, noneVars, envVars, cfgVars, dbVars, cbLog, nraise, lastUpdate>>

\* The length of the text json.dump writes for doc, up to what is the same
\* in every checkpoint of a run: the digits of the statuses, and the lines of
\* the progress entries (keys of one length here).
NumLen(v) == IF v < 0 THEN 2 ELSE 1

RECURSIVE StatusLen(_)
StatusLen(status) ==
    IF status = <<>> THEN 0 ELSE NumLen(Head(status).st) + StatusLen(Tail(status))

RECURSIVE TasksLen(_)
TasksLen(tasks) ==
    IF tasks = <<>> THEN 0
    ELSE (IF "status" \in DOMAIN Head(tasks) THEN StatusLen(Head(tasks).status) ELSE 0)
         + TasksLen(Tail(tasks))

RECURSIVE ProgressLen(_, _)
ProgressLen(progress, keys) ==
    IF keys = {} THEN 0
    ELSE LET k == CHOOSE x \in keys : TRUE
         IN  10 + NumLen(progress[k]) + ProgressLen(progress, keys \ {k})

TextLen(doc) == TasksLen(doc.tasks) + ProgressLen(doc.progress, DOMAIN doc.progress)

FileLen(file) ==
    IF file.kind = "doc" THEN TextLen(file.data[1])
    ELSE IF file.kind = "corrupt" THEN file.data[1].len
    ELSE 0

\* Leaving the with-block writes the buffer at offset 0 of the file as it is
\* now.  Another thread may have written the file since this thread truncated
\* it: a text that is not longer is overwritten whole, of a longer one the
\* tail stays behind this text.
FlushResult(t) ==
    IF FileLen(disk[wpath[t]]) <= FileLen(wbuf[t]) \/ disk[wpath[t]] = wbuf[t]
    THEN wbuf[t]
    ELSE CorruptOf(FileLen(disk[wpath[t]]))

WriteClose(t) ==
    /\ alive = "up" /\ pc[t] = "w_close"
    /\ disk' = [disk EXCEPT ![wpath[t]] = FlushResult(t)]
    /\ wbuf' = [wbuf EXCEPT ![t] = Absent]
    /\ wpath' = [wpath EXCEPT ![t] = Primary]
    /\ pc' = [pc EXCEPT ![t] = AfterWrite(t)]
    /\ UNCHANGED <<alive, checkpoint_data, task_queue, planVars, sent, cur, nrep,
                   putLog, noneVars, envVars, runVars>>

(***************************************************************************)
(* start_processing: the sentinels and the join.                           *)
(***************************************************************************)
\* A faulty variant of the shutdown: start_processing joins without having
\* put a sentinel.
PutSentinelSkipped ==
    /\ alive = "up" /\ pc[0] = "m_sentinel"
    /\ pc' = [pc EXCEPT ![0] = "m_join"]
    /\ UNCHANGED <<alive, checkpoint_data, disk, task_queue, planVars, sent, cur, nrep,
                   writeVars, putLog, noneVars, envVars, runVars>>

\* A faulty variant of the shutdown, used to show that the sentinel
\* properties below depend on it: one sentinel is put, whatever max_workers
\* (the workers pass it on).
PutSentinelOnce ==
    /\ alive = "up" /\ pc[0] = "m_sentinel"
    /\ IF sent < 1
       THEN /\ task_queue' = Append(task_queue, NoneItem)
            /\ sent' = sent + 1
            /\ pc' = pc
       ELSE /\ pc' = [pc EXCEPT ![0] = "m_join"]
            /\ UNCHANGED <<task_queue, sent>>
    /\ UNCHANGED <<alive, checkpoint_data, disk, planVars, cur, nrep, writeVars,
                   putLog, noneVars, envVars, runVars>>

PutSentinel ==
    /\ alive = "up" /\ pc[0] = "m_sentinel"
    /\ IF sent < max_workers
       THEN /\ task_queue' = Append(task_queue, NoneItem)
            /\ sent' = sent + 1
            /\ pc' = pc
       ELSE /\ pc' = [pc EXCEPT ![0] = "m_join"]
            /\ UNCHANGED <<task_queue, sent>>
    /\ UNCHANGED <<alive, checkpoint_data, disk, planVars, cur, nrep, writeVars,
                   putLog, noneVars, envVars, runVars>>

JoinWorkers ==
    /\ alive = "up" /\ pc[0] = "m_join"
    /\ \A w \in ActiveWorkers : pc[w] = "exit"
    /\ pc' = [pc EXCEPT ![0] = "joined"]
    /\ UNCHANGED <<alive, checkpoint_data, disk, task_queue, planVars, sent, cur, nrep,
                   writeVars, putLog, noneVars, envVars, runVars>>

(***************************************************************************)
(* _worker_process                                                         *)
(***************************************************************************)
\* A worker that used a non-blocking get and left on an empty queue.
WorkerGetNoWait(w) ==
    /\ alive = "up" /\ pc[w] = "get"
    /\ IF task_queue = <<>>
       THEN /\ pc' = [pc EXCEPT ![w] = "exit"]
            /\ UNCHANGED <<task_queue, cur, noneGot, cbLog>>
       ELSE /\ task_queue' = Tail(task_queue)
            /\ cur' = [cur EXCEPT ![w] = Head(task_queue)]
            /\ IF Head(task_queue) = NoneItem
               THEN /\ pc' = [pc EXCEPT ![w] = "reput"]
                    /\ noneGot' = [noneGot EXCEPT ![w] = @ + 1]
                    /\ UNCHANGED cbLog
               ELSE /\ pc' = [pc EXCEPT ![w] = "cb"]
                    /\ cbLog' = Append(cbLog, Head(task_queue))
                    /\ UNCHANGED noneGot
    /\ UNCHANGED <<alive, checkpoint_data, disk, planVars, sent, nrep, writeVars,
                   putLog, nonePut, envVars, cfgVars, dbVars, nraise, ncritical,
                   lastUpdate>>

\* task = self.task_queue.get()  (blocks while the queue is empty)
WorkerGet(w) ==
    /\ alive = "up" /\ pc[w] = "get"
    /\ task_queue # <<>>
    /\ task_queue' = Tail(task_queue)
    /\ cur' = [cur EXCEPT ![w] = Head(task_queue)]
    /\ IF Head(task_queue) = NoneItem
       THEN /\ pc' = [pc EXCEPT ![w] = "reput"]
            /\ noneGot' = [noneGot EXCEPT ![w] = @ + 1]
            /\ UNCHANGED cbLog
       ELSE /\ pc' = [pc EXCEPT ![w] = "cb"]
            /\ cbLog' = Append(cbLog, Head(task_queue))
            /\ UNCHANGED noneGot
    /\ UNCHANGED <<alive, checkpoint_data, disk, planVars, sent, nrep, writeVars,
                   putLog, nonePut, envVars, cfgVars, dbVars, nraise, ncritical,
                   lastUpdate>>

\* if task is None: self.task_queue.put(None); break
WorkerReput(w) ==
    /\ alive = "up" /\ pc[w] = "reput"
    /\ task_queue' = Append(task_queue, NoneItem)
    /\ nonePut' = [nonePut EXCEPT ![w] = @ + 1]
    /\ pc' = [pc EXCEPT ![w] = "exit"]
    /\ UNCHANGED <<alive, checkpoint_data, disk, planVars, sent, cur, nrep, writeVars,
                   putLog, noneGot, envVars, runVars>>

\* _process_task: the callback returns (or raises, which is caught and logged);
\* task_done, back to the queue.
CallbackReturn(w) ==
    /\ alive = "up" /\ pc[w] = "cb"
    /\ pc' = [pc EXCEPT ![w] = "get"]
    /\ cur' = [cur EXCEPT ![w] = NoneItem]
    /\ UNCHANGED <<alive, checkpoint_data, disk, task_queue, planVars, sent, nrep,
                   writeVars, putLog, noneVars, envVars, runVars>>

(***************************************************************************)
(* handle_worker_update -> _update_task_progress, called by the callback   *)
(* of worker w for a file of its Task.                                     *)
(***************************************************************************)
\* next((t for t in tasks if t['directory'] == directory), None): index or 0
\* (an entry without t['directory'] met before a match raises, and the
\* update is dropped as if no record matched)
FindTask(tasks, directory) ==
    LET first(i) ==
            /\ \A j \in 1..i : "directory" \in DOMAIN tasks[j]
            /\ tasks[i].directory = directory
            /\ \A j \in 1..(i - 1) : tasks[j].directory # directory
    IN  IF \E i \in 1..Len(tasks) : first(i)
        THEN CHOOSE i \in 1..Len(tasks) : first(i)
        ELSE 0

\* task['status'][file] = last_processed_frame
SetTaskStatus(tasks, i, file, last_processed_frame) ==
    [tasks EXCEPT ![i].status = DictSet(@, file, last_processed_frame)]

\* if all(status == -1 ...): for f in task['status']: task['status'][f] = -1
CompleteIfAllDone(tasks, i) ==
    IF DictAllDone(tasks[i].status)
    THEN [tasks EXCEPT ![i].status =
            [j \in 1..Len(@) |-> [file |-> @[j].file, st |-> DONE]]]
    ELSE tasks

\* _update_task_progress without the test that the file is one of the
\* record found.
ApplyUpdateUnchecked(data, directory, file, last_processed_frame) ==
    LET i == FindTask(data.tasks, directory)
    IN  IF i = 0
        THEN [found |-> FALSE, data |-> data]
        ELSE [found |-> TRUE,
              data |-> [data EXCEPT
                 !.tasks = CompleteIfAllDone(
                              SetTaskStatus(@, i, file, last_processed_frame), i),
                 !.progress = MapSet(@, file, last_processed_frame)]]

\* The in-memory part of _update_task_progress: lookup, the two assignments
\* and the completion check.  The result is the new checkpoint_data; found
\* tells whether the update was applied (else ValueError, logged).
ApplyUpdate(data, directory, file, last_processed_frame) ==
    LET i == FindTask(data.tasks, directory)
    IN  IF i = 0 \/ ~DictHas(data.tasks[i].status, file)
        THEN [found |-> FALSE, data |-> data]
        ELSE [found |-> TRUE,
              data |-> [data EXCEPT
                 !.tasks = CompleteIfAllDone(
                              SetTaskStatus(@, i, file, last_processed_frame), i),
                 !.progress = MapSet(@, file, last_processed_frame)]]

\* _update_task_progress up to the call of _write_checkpoint.
UpdateTaskProgress(w, directory, file, last_processed_frame) ==
    LET r == ApplyUpdate(checkpoint_data, directory, file, last_processed_frame)
    IN  /\ checkpoint_data' = r.data
        /\ pc' = [pc EXCEPT ![w] = IF r.found THEN "w_open" ELSE "cb"]

\* The callback of worker w calls handle_worker_update for a file of its Task.
CallbackReport(w) ==
    /\ alive = "up" /\ pc[w] = "cb"
    /\ nrep < reportLimit
    /\ nrep' = nrep + 1
    /\ \E k \in 1..Len(cur[w].files), v \in ReportVals :
          UpdateTaskProgress(w, cur[w].directory, cur[w].files[k], v)
    /\ UNCHANGED <<alive, disk, task_queue, planVars, sent, cur, writeVars, putLog,
                   noneVars, envVars, runVars>>

Next ==
    \/ StartWorkers
    \/ ManageTasksStep
    \/ QueueBatchMark
    \/ PutSentinel
    \/ JoinWorkers
    \/ \E t \in Threads : WriteOpen(t)
    \/ \E t \in Threads : WriteClose(t)
    \/ \E w \in WorkerIds : WorkerGet(w)
    \/ \E w \in WorkerIds : WorkerReput(w)
    \/ \E w \in WorkerIds : CallbackReport(w)
    \/ \E w \in WorkerIds : CallbackReturn(w)

Spec == Init /\ [][Next]_vars

(***************************************************************************)
(* Runs of an orchestrator constructed with force_restart on no checkpoint *)
(* while any set of the storage locations is failing.                      *)
(***************************************************************************)
InitPersist ==
    \E fail \in SUBSET Paths :
        /\ InitWith(NewCheckpoint(MaxBatchSize, 1), MaxBatchSize, 1, fail, MaxCrashReports)
        /\ force_restart = TRUE

SpecPersist == InitPersist /\ [][Next]_vars

(***************************************************************************)
(* Runs on a checkpoint whose tasks hold entries the program did not       *)
(* write.  The validation of the load accepts any list as tasks.           *)
(***************************************************************************)
MalformedEntries ==
    {[py |-> "str"],
     [status |-> PrepareInitialStatus("B")],
     [directory |-> "", status |-> PrepareInitialStatus("B")],
     [directory |-> "C", status |-> <<>>, py_status |-> "list"]}

\* The two records of a new checkpoint with one or two such entries
\* before, between or after them.
PlanTasks ==
    LET good == NewCheckpoint(1, 1).tasks
    IN  {<<m>> \o good : m \in MalformedEntries}
        \cup {<<good[1], m, good[2]>> : m \in MalformedEntries}
        \cup {good \o <<m>> : m \in MalformedEntries}
        \cup {<<m, n, good[2]>> : m, n \in MalformedEntries}

InitPlan ==
    \E bs \in 1..MaxBatchSize, tasks \in PlanTasks :
        /\ InitWith([NewCheckpoint(bs, 1) EXCEPT !.tasks = tasks], bs, 1, {},
                    MaxCrashReports)
        /\ force_restart = FALSE

SpecPlan == InitPlan /\ [][Next]_vars

(***************************************************************************)
(* handle_worker_update on any update_info a callback may pass.            *)
(*                                                                         *)
(* An update_info is a dict: keys are the keys it has, dty, fty and sty    *)
(* the Python types of the values under 'directory', 'file' and 'status',  *)
(* and directory, file, status those values where the type is str, str,    *)
(* int.                                                                    *)
(***************************************************************************)
UpdateKeys == {"directory", "file", "status"}

UpdateInfo(keys, dty, fty, sty, directory, file, status) ==
    [keys |-> keys, dty |-> dty, fty |-> fty, sty |-> sty,
     directory |-> directory, file |-> file, status |-> status]

UpdateInfos ==
    {UpdateInfo(UpdateKeys, "str", "str", "int", d, f, v) :
        d \in {"A", "B", "Z"}, f \in {"a1", "b1", "zz"}, v \in ReportVals}
    \cup {UpdateInfo(k, "str", "str", "int", "A", "a1", 1) :
            k \in (SUBSET UpdateKeys) \ {UpdateKeys}}
    \cup {UpdateInfo(UpdateKeys, t, "str", "int", "", "a1", 1) : t \in {"int", "NoneType"}}
    \cup {UpdateInfo(UpdateKeys, "str", t, "int", "A", "", 1) : t \in {"int", "NoneType"}}
    \cup {UpdateInfo(UpdateKeys, "str", "str", t, "A", "a1", 0) : t \in {"str", "float"}}

\* handle_worker_update.  raised: an exception leaves the method; applied:
\* _update_task_progress changed the checkpoint and goes on to write it.
\* The handler of line 379 formats file and directory into its log line:
\* they are unbound locals when the key test of line 363 raised, and the
\* UnboundLocalError of line 381 leaves the method.
HandleWorkerUpdate(data, update_info) ==
    IF ~(UpdateKeys \subseteq update_info.keys)
    THEN [raised |-> TRUE, applied |-> FALSE, data |-> data]
    ELSE IF update_info.dty # "str" \/ update_info.fty # "str" \/ update_info.sty # "int"
    THEN [raised |-> FALSE, applied |-> FALSE, data |-> data]
    ELSE LET r == ApplyUpdate(data, update_info.directory, update_info.file,
                              update_info.status)
         IN  [raised |-> FALSE, applied |-> r.found, data |-> r.data]

\* The callback of worker w calls handle_worker_update with any update_info.
\* An exception that leaves the method is raised in the callback, which
\* handles it and goes on, or does not: then _process_task logs it and the
\* worker goes back to the queue.
CallbackUpdate(w) ==
    /\ alive = "up" /\ pc[w] = "cb"
    /\ nrep < reportLimit
    /\ nrep' = nrep + 1
    /\ \E update_info \in UpdateInfos :
        LET r == HandleWorkerUpdate(checkpoint_data, update_info)
        IN  /\ checkpoint_data' = r.data
            /\ lastUpdate' = [update |-> update_info, raised |-> r.raised, n |-> nrep + 1]
            /\ IF r.raised
               THEN \/ UNCHANGED <<pc, cur>>
                    \/ /\ pc' = [pc EXCEPT ![w] = "get"]
                       /\ cur' = [cur EXCEPT ![w] = NoneItem]
               ELSE /\ pc' = [pc EXCEPT ![w] = IF r.applied THEN "w_open" ELSE "cb"]
                    /\ UNCHANGED cur
    /\ UNCHANGED <<alive, disk, task_queue, planVars, sent, writeVars, putLog,
                   noneVars, envVars, cfgVars, dbVars, cbLog, nraise, ncritical>>

InitUpdate ==
    \E bs \in 1..MaxBatchSize, sts \in InitStatuses :
        /\ InitWith(WithStatuses(NewCheckpoint(bs, 1), sts), bs, 1, {}, MaxUpdates)
        /\ force_restart = FALSE

NextUpdate ==
    \/ Next
    \/ \E w \in WorkerIds : CallbackUpdate(w)

SpecUpdate == InitUpdate /\ [][NextUpdate]_vars

(***************************************************************************)
(* Runs in which callbacks may raise, under fair scheduling of the         *)
(* threads.                                                                *)
(***************************************************************************)
\* A worker without the two handlers: the exception of the callback ends
\* its thread.
CallbackRaiseEndsWorker(w) ==
    /\ alive = "up" /\ pc[w] = "cb"
    /\ nraise < MaxRaises
    /\ nraise' = nraise + 1
    /\ pc' = [pc EXCEPT ![w] = "exit"]
    /\ cur' = [cur EXCEPT ![w] = NoneItem]
    /\ UNCHANGED <<alive, checkpoint_data, disk, task_queue, planVars, sent, nrep,
                   writeVars, putLog, noneVars, envVars, cfgVars, dbVars, cbLog,
                   ncritical, lastUpdate>>

\* _process_task: the callback raises an Exception; it is caught and logged
\* (lines 428-429), the worker calls task_done and goes back to the queue.
CallbackRaise(w) ==
    /\ alive = "up" /\ pc[w] = "cb"
    /\ nraise < MaxRaises
    /\ nraise' = nraise + 1
    /\ pc' = [pc EXCEPT ![w] = "get"]
    /\ cur' = [cur EXCEPT ![w] = NoneItem]
    /\ UNCHANGED <<alive, checkpoint_data, disk, task_queue, planVars, sent, nrep,
                   writeVars, putLog, noneVars, envVars, cfgVars, dbVars, cbLog,
                   ncritical, lastUpdate>>

\* The checkpoints the pool runs start on: nothing done (three batches of
\* at most two files), all done (no batch), one file left (one batch).
PoolStatuses == {<<0, 0, 0, 0>>, <<DONE, DONE, DONE, DONE>>, <<DONE, DONE, 1, DONE>>}

InitPool ==
    \E bs \in 1..MaxBatchSize, mw \in 1..MaxWorkers, sts \in PoolStatuses :
        /\ InitWith(WithStatuses(NewCheckpoint(bs, mw), sts), bs, mw, {}, MaxPoolReports)
        /\ force_restart = FALSE

NextPool ==
    \/ Next
    \/ \E w \in WorkerIds : CallbackRaise(w)

\* The steps of the thread that called start_processing.
MainThread ==
    \/ StartWorkers
    \/ ManageTasksStep
    \/ QueueBatchMark
    \/ PutSentinel
    \/ JoinWorkers
    \/ WriteOpen(0)
    \/ WriteClose(0)

\* The steps of worker w that do not depend on what the callback chooses
\* to do: the callback need not report, and it ends by returning or raising.
WorkerThread(w) ==
    \/ WorkerGet(w)
    \/ WorkerReput(w)
    \/ CallbackReturn(w)
    \/ CallbackRaise(w)
    \/ WriteOpen(w)
    \/ WriteClose(w)

SpecPool ==
    /\ InitPool
    /\ [][NextPool]_vars
    /\ WF_vars(MainThread)
    /\ \A w \in WorkerIds : WF_vars(WorkerThread(w))

(***************************************************************************)
(* The environment: storage locations that start failing, the death of     *)
(* the process, and its restart with the same task name and checkpoint     *)
(* directory.                                                              *)
(***************************************************************************)
\* Locations fail in the order they are tried (a failing location behind a
\* working one is never opened).
BreakPath ==
    /\ alive = "up"
    /\ faults < MaxFaults
    /\ \E i \in 1..Len(WritePaths) :
          /\ WritePaths[i] \notin failing
          /\ \A j \in 1..(i - 1) : WritePaths[j] \in failing
          /\ failing' = failing \cup {WritePaths[i]}
    /\ faults' = faults + 1
    /\ UNCHANGED <<alive, checkpoint_data, disk, task_queue, pc, planVars, sent, cur, nrep,
                   writeVars, putLog, noneVars, crashes, runVars>>

\* The process dies: memory, queue and threads are gone, unflushed buffers
\* are lost, the files stay as they are.
Crash ==
    /\ alive = "up"
    /\ crashes < MaxCrashes
    /\ alive' = "down"
    /\ crashes' = crashes + 1
    /\ ResetRun(initDoc)
    /\ UNCHANGED <<disk, failing, faults, nrep, batch_size, max_workers, reportLimit,
                   force_restart, nraise, ncritical, lastUpdate, dbVars>>

(***************************************************************************)
(* Any JSON document at the primary path.                                  *)
(*                                                                         *)
(* A parsed value is known by its Python type ty; n is the number for int  *)
(* and bool (True is 1) and the length for list and tuple, elem the type   *)
(* of the items of a list.  A parsed document has the type of its top      *)
(* level value and, when that is dict, the values under its keys.          *)
(***************************************************************************)
JVal(ty, n, elem) == [ty |-> ty, n |-> n, elem |-> elem]

JVals ==
    {JVal(t, 0, "") : t \in {"str", "float", "NoneType", "dict"}}
    \cup {JVal("int", n, "") : n \in {-1, 0, 3}}
    \cup {JVal("bool", n, "") : n \in {0, 1}}
    \cup {JVal("list", n, "bool") : n \in {3, 4, 5}}
    \cup {JVal("list", 4, e) : e \in {"int", "str"}}

RequiredKeys ==
    {"task_name", "input_type_flags", "batch_size", "max_workers", "tasks", "progress"}

\* The fields of a document as the spec describes a checkpoint.
GoodFields ==
    [k \in RequiredKeys |->
        IF k = "task_name" THEN JVal("str", 0, "")
        ELSE IF k = "input_type_flags" THEN JVal("list", 4, "bool")
        ELSE IF k = "batch_size" THEN JVal("int", 3, "")
        ELSE IF k = "max_workers" THEN JVal("int", 3, "")
        ELSE IF k = "tasks" THEN JVal("list", 3, "dict")
        ELSE JVal("dict", 0, "")]

WithExtra(fields) ==
    [k \in (DOMAIN fields) \cup {"comment"} |->
        IF k = "comment" THEN JVal("str", 0, "") ELSE fields[k]]

\* It, with one field replaced or removed, with and without a field the
\* program does not know.
FieldSets ==
    LET one == {GoodFields}
               \cup {[GoodFields EXCEPT ![k] = v] : k \in RequiredKeys, v \in JVals}
               \cup {[k \in RequiredKeys \ {r} |-> GoodFields[k]] : r \in RequiredKeys}
    IN  one \cup {WithExtra(f) : f \in one}

NoFields == [k \in {} |-> JVal("", 0, "")]

Parsed(ty, fields) == [ty |-> ty, fields |-> fields]

ParsedDocs ==
    {Parsed("dict", f) : f \in FieldSets}
    \cup {Parsed(t, NoFields) : t \in {"list", "str", "int", "float", "bool", "NoneType"}}

JsonFileOf(parsed) == [kind |-> "json", data |-> <<parsed>>]

\* Lines 159-161 on a parsed dict.
FlagsToTuple(fields) ==
    IF "input_type_flags" \in DOMAIN fields /\ fields["input_type_flags"].ty = "list"
    THEN [fields EXCEPT !["input_type_flags"].ty = "tuple"]
    ELSE fields

\* _validate_checkpoint_format: TRUE, or FALSE for its ValueError.  The
\* items of input_type_flags are not looked at; isinstance(x, int) holds of
\* a bool.
ValidateCheckpointFields(data) ==
    /\ RequiredKeys \subseteq DOMAIN data
    /\ data["task_name"].ty = "str"
    /\ data["input_type_flags"].ty = "tuple" /\ data["input_type_flags"].n = 4
    /\ data["batch_size"].ty \in {"int", "bool"} /\ data["batch_size"].n > 0
    /\ data["max_workers"].ty \in {"int", "bool"} /\ data["max_workers"].n > 0
    /\ data["tasks"].ty = "list"
    /\ data["progress"].ty = "dict"

\* Lines 159-164 on any parsed document.  'input_type_flags' in x raises
\* TypeError when x is a number, a bool or None; it is False of a list or a
\* string (that do not hold this text), and so is every key test of the
\* validation.
LoadParsed(parsed) ==
    IF parsed.ty \in {"int", "float", "bool", "NoneType"}
    THEN [ok |-> FALSE, error |-> "TypeError"]
    ELSE IF parsed.ty # "dict" THEN [ok |-> FALSE, error |-> "ValueError"]
    ELSE IF ~ValidateCheckpointFields(FlagsToTuple(parsed.fields))
    THEN [ok |-> FALSE, error |-> "ValueError"]
    ELSE [ok |-> TRUE, error |-> ""]

\* _initialize_checkpoint reads the primary path only.
LoadResult(file) ==
    IF file.kind = "absent" THEN [ok |-> FALSE, error |-> "FileNotFoundError"]
    ELSE IF file.kind = "json" THEN LoadParsed(file.data[1])
    ELSE IF file.kind # "doc" THEN [ok |-> FALSE, error |-> "JSONDecodeError"]
    ELSE IF ~ValidateCheckpointFormat(ListToTuple(file.data[1]))
         THEN [ok |-> FALSE, error |-> "ValueError"]
    ELSE [ok |-> TRUE, error |-> ""]

\* checkpoint_data after a load that succeeded.
Loaded(file) ==
    IF file.kind = "json"
    THEN Parsed("dict", FlagsToTuple(file.data[1].fields))
    ELSE ListToTuple(file.data[1])

\* A faulty variant of _initialize_checkpoint, used to show that the
\* force_restart property below depends on the order of its tests:
\* force_restart is looked at first and a fresh checkpoint replaces whatever
\* the file holds.
InitializeCheckpointForceFirst(force) ==
    LET r == LoadResult(disk[Primary])
    IN  IF force
        THEN /\ alive' = "up"
             /\ ResetRun(NewCheckpoint(batch_size, max_workers))
             /\ disk' = WriteCheckpointAlone(disk, NewCheckpoint(batch_size, max_workers),
                                             failing)
             /\ ncritical' = (IF AllFail(failing) THEN ncritical + 1 ELSE ncritical)
        ELSE IF r.ok
        THEN /\ alive' = "up"
             /\ ResetRun(Loaded(disk[Primary]))
             /\ UNCHANGED <<disk, ncritical>>
        ELSE /\ alive' = "failed"
             /\ ResetRun(initDoc)
             /\ UNCHANGED <<disk, ncritical>>

InitializeCheckpoint(force) ==
    LET r == LoadResult(disk[Primary])
    IN  IF r.ok
        THEN /\ alive' = "up"
             /\ ResetRun(Loaded(disk[Primary]))
             /\ UNCHANGED <<disk, ncritical>>
        ELSE IF force /\ r.error # "TypeError"
        THEN /\ alive' = "up"
             /\ ResetRun(NewCheckpoint(batch_size, max_workers))
             /\ disk' = WriteCheckpointAlone(disk, NewCheckpoint(batch_size, max_workers),
                                             failing)
             /\ ncritical' = (IF AllFail(failing) THEN ncritical + 1 ELSE ncritical)
        ELSE /\ alive' = "failed"
             /\ ResetRun(initDoc)
             /\ UNCHANGED <<disk, ncritical>>

Restart ==
    /\ alive = "down"
    /\ \E force \in BOOLEAN :
        /\ force_restart' = force
        /\ InitializeCheckpoint(force)
    /\ UNCHANGED <<failing, faults, crashes, nrep, batch_size, max_workers, reportLimit,
                   nraise, lastUpdate, dbVars>>

\* Runs with failing storage and one process death.  The orchestrator was
\* constructed with force_restart on no checkpoint; the primary location may
\* have been failing already.
InitCrash ==
    \E bs \in 1..MaxBatchSize, fail \in {{}, {Primary}} :
        /\ InitWith(NewCheckpoint(bs, 1), bs, 1, fail, MaxCrashReports)
        /\ force_restart = TRUE

(***************************************************************************)
(* Construction on any file at the primary path: a checkpoint an earlier   *)
(* run persisted, no file, a file that is no JSON, any JSON document.      *)
(***************************************************************************)
PersistedStates ==
    {[WithStatuses(NewCheckpoint(bs, mw), sts) EXCEPT !.progress = pr] :
        bs \in 1..MaxBatchSize, mw \in 1..MaxWorkers, sts \in InitStatuses,
        pr \in {EmptyMap, MapSet(EmptyMap, "a1", 1),
                MapSet(MapSet(EmptyMap, "a1", DONE), "b1", 0)}}

InitLoad ==
    \E doc \in PersistedStates :
    \E file \in {Absent, Truncated, CorruptOf(1)} \cup {JsonFileOf(x) : x \in ParsedDocs}
                 \cup {FileOf(JsonDump(doc))} :
        /\ alive = "down"
        /\ batch_size = doc.batch_size
        /\ max_workers = doc.max_workers
        /\ disk = [NoFiles EXCEPT ![Primary] = file]
        /\ failing = {}
        /\ FreshRun(IF file.kind = "doc" THEN doc
                    ELSE NewCheckpoint(doc.batch_size, doc.max_workers))
        /\ nrep = 0 /\ reportLimit = 0
        /\ crashes = 0 /\ faults = 0
        /\ nraise = 0 /\ ncritical = 0
        /\ lastUpdate = NoUpdate
        /\ force_restart = FALSE
        /\ WriterInit(1)

SpecLoad == InitLoad /\ [][Restart]_vars

NextCrash ==
    \/ Next
    \/ BreakPath
    \/ Crash
    \/ Restart

SpecCrash == InitCrash /\ [][NextCrash]_vars

(***************************************************************************)
(* DatabaseManipulator                                                     *)
(*                                                                         *)
(* A row stands for the tuple of its values.  What the environment does    *)
(* to one safe_execute call is an input of the call:                       *)
(*   connFails   create_connection raises (RuntimeError)                   *)
(*   errs        the sqlite3.Error of the 1st, 2nd, ... attempt: raised by *)
(*               the statement ("execute") or by the commit ("commit");    *)
(*               the attempt after the last listed one succeeds            *)
(*   dumpFailAt  dump_to_csv raises (OSError) on the k-th row, 0: never    *)
(*   hashes      the value get_numeric_hash returns for the k-th row       *)
(***************************************************************************)
DefaultRetries == 3

ErrKinds == {"execute", "commit"}

\* get_numeric_hash(), called by dump_to_csv once for every row it writes:
\* the suffixes returned on the calls of one spill of nrows rows.
NumericHashes(nrows) == [1..nrows -> HashVals]

Envs(retries, nrows) ==
    {[connFails |-> TRUE, errs |-> <<>>, dumpFailAt |-> 0, hashes |-> <<>>]}
    \cup {[connFails |-> FALSE, errs |-> e, dumpFailAt |-> 0, hashes |-> <<>>] :
            e \in UNION {[1..k -> ErrKinds] : k \in 0..(retries - 1)}}
    \cup {[connFails |-> FALSE, errs |-> e, dumpFailAt |-> d, hashes |-> h] :
            e \in [1..retries -> ErrKinds], d \in 0..nrows, h \in NumericHashes(nrows)}

NoEnv == [connFails |-> FALSE, errs |-> <<>>, dumpFailAt |-> 0, hashes |-> <<>>]

BagAdd(b, e) ==
    [x \in (DOMAIN b) \cup {e} |->
        IF x = e THEN (IF e \in DOMAIN b THEN b[e] + 1 ELSE 1) ELSE b[x]]

RECURSIVE BagAddAll(_, _)
BagAddAll(b, es) == IF es = <<>> THEN b ELSE BagAddAll(BagAdd(b, Head(es)), Tail(es))

NoData == [kind |-> "none", rows |-> <<>>]
ListData(rows) == [kind |-> "list", rows |-> rows]
TupleData(row) == [kind |-> "tuple", rows |-> <<row>>]

\* `if data:`
Truthy(data) == data.kind # "none" /\ data.rows # <<>>

\* The rows one execution of the statement inserts.
Inserted(call) == [k \in 1..Len(call.data.rows) |-> <<call.table, call.data.rows[k]>>]

\* A faulty variant of the spill loop, used to show that the spill property
\* of safe_execute depends on it: only the first row of the data is written.
DumpRowsHeadOnly(d, rows, k, env) ==
    IF rows = <<>> \/ env.dumpFailAt = 1 THEN [dumps |-> d, raised |-> env.dumpFailAt = 1]
    ELSE [dumps |-> [d EXCEPT ![env.hashes[1]] = Append(@, rows[1])], raised |-> FALSE]

\* dump_to_csv for every row of data, in order: appends the row to the file
\* emergency_dump_<db>_<hash>.csv.
RECURSIVE DumpRows(_, _, _, _)
DumpRows(d, rows, k, env) ==
    IF k > Len(rows) THEN [dumps |-> d, raised |-> FALSE]
    ELSE IF env.dumpFailAt = k THEN [dumps |-> d, raised |-> TRUE]
    ELSE DumpRows([d EXCEPT ![env.hashes[k]] = Append(@, rows[k])], rows, k + 1, env)

\* A faulty variant of the `finally` clause, used to show that the
\* closed-connection property below depends on it: the connection is closed
\* only when the call returns normally.
FinallyOnReturnOnly(st, raised, attempts) ==
    [conn |-> IF raised THEN st.conn ELSE "none", committed |-> st.committed,
     dumps |-> st.dumps, raised |-> raised, attempts |-> attempts,
     rollbacks |-> st.rollbacks, opens |-> st.opens,
     closes |-> IF st.conn = "open" /\ ~raised THEN 1 ELSE 0]

\* `finally: self.close_connection()`: the connection is closed, what its open
\* transaction holds is discarded.  opens, closes: the connections the call
\* created and closed.
Finally(st, raised, attempts) ==
    [conn |-> "none", committed |-> st.committed, dumps |-> st.dumps,
     raised |-> raised, attempts |-> attempts, rollbacks |-> st.rollbacks,
     opens |-> st.opens, closes |-> IF st.conn = "open" THEN 1 ELSE 0]

\* A faulty variant of the error handler, used to show that the retry
\* property below depends on the rollback: the failed attempt's rows stay in
\* the open transaction.
AfterErrorKeepsPending(st, call, kind) ==
    [st EXCEPT !.conn = "open",
               !.pending = IF kind = "commit" THEN @ \o Inserted(call) ELSE @]

\* `except sqlite3.Error`: the attempt failed while executing (kind
\* "execute") or while committing (kind "commit"); a transactional call rolls
\* the connection back.
AfterError(st, call, kind) ==
    LET done == IF kind = "commit" THEN st.pending \o Inserted(call) ELSE st.pending
    IN  [st EXCEPT !.conn = "open",
                   !.pending = IF call.use_transaction THEN <<>> ELSE done,
                   !.rollbacks = IF call.use_transaction THEN @ + 1 ELSE @]

\* `if not self.conn: self.create_connection()`, the connection made.
Connected(st) ==
    [st EXCEPT !.conn = "open", !.opens = IF st.conn = "none" THEN @ + 1 ELSE @]

\* The loop `for attempt in range(retries)` from attempt n (0-based) on.
\* st.pending: the rows inserted in the connection's open transaction;
\* st.rollbacks: the calls of conn.rollback() made so far.
RECURSIVE AttemptLoop(_, _, _, _)
AttemptLoop(n, st, call, env) ==
    IF n >= call.retries THEN Finally(st, FALSE, n)
    ELSE IF st.conn = "none" /\ env.connFails THEN Finally(st, TRUE, n)
    ELSE IF n + 1 > Len(env.errs)
         THEN Finally([Connected(st) EXCEPT
                          !.committed = BagAddAll(@, st.pending \o Inserted(call))],
                      FALSE, n + 1)
         ELSE LET st2 == AfterError(Connected(st), call, env.errs[n + 1])
              IN  IF n = call.retries - 1
                  THEN IF Truthy(call.data) /\ call.enable_emergency_dumps
                       THEN LET d == DumpRows(st2.dumps, call.data.rows, 1, env)
                                st3 == [st2 EXCEPT !.dumps = d.dumps]
                            IN  IF d.raised \/ ~call.sustain_emergency_dumps
                                THEN Finally(st3, TRUE, n + 1)
                                ELSE AttemptLoop(n + 1, st3, call, env)
                       ELSE Finally(st2, TRUE, n + 1)
                  ELSE AttemptLoop(n + 1, st2, call, env)

\* safe_execute on the writer state w.
SafeExecute(w, call, env) ==
    AttemptLoop(0, [conn |-> w.conn, pending |-> <<>>, committed |-> w.committed,
                    dumps |-> w.dumps, rollbacks |-> 0, opens |-> 0], call, env)

Writer == [conn |-> conn, batch_data |-> batch_data, batch_table |-> batch_table,
           committed |-> committed, dumps |-> dumps]

\* A faulty variant of flush_batch, used to show that the no-loss property
\* below depends on it: the buffer is cleared whether or not safe_execute
\* returned normally.
FlushBatchClearAlways(w, env) ==
    IF w.batch_data = <<>>
    THEN [w |-> w, raised |-> FALSE, flushed |-> FALSE]
    ELSE LET r == SafeExecute(w, [table |-> w.batch_table,
                                  data |-> ListData(w.batch_data),
                                  retries |-> DefaultRetries,
                                  use_transaction |-> TRUE,
                                  enable_emergency_dumps |-> TRUE,
                                  sustain_emergency_dumps |-> TRUE], env)
             w2 == [w EXCEPT !.conn = r.conn, !.committed = r.committed,
                             !.dumps = r.dumps, !.batch_data = <<>>]
         IN  [w |-> w2, raised |-> r.raised, flushed |-> TRUE]

\* flush_batch: the result is the writer state, whether the call raised and
\* whether it cleared the buffer.
FlushBatch(w, env) ==
    IF w.batch_data = <<>>
    THEN [w |-> w, raised |-> FALSE, flushed |-> FALSE]
    ELSE LET r == SafeExecute(w, [table |-> w.batch_table,
                                  data |-> ListData(w.batch_data),
                                  retries |-> DefaultRetries,
                                  use_transaction |-> TRUE,
                                  enable_emergency_dumps |-> TRUE,
                                  sustain_emergency_dumps |-> TRUE], env)
             w2 == [w EXCEPT !.conn = r.conn, !.committed = r.committed,
                             !.dumps = r.dumps]
         IN  IF r.raised
             THEN [w |-> w2, raised |-> TRUE, flushed |-> FALSE]
             ELSE [w |-> [w2 EXCEPT !.batch_data = <<>>], raised |-> FALSE,
                   flushed |-> TRUE]

\* A faulty variant of add_to_batch, used to show that the batch-size
\* property below depends on the comparison: the flush waits for the buffer to
\* exceed batch_size.
AddToBatchOpLate(w, table, row, size, env1, env2) ==
    LET f1 == IF w.batch_table # "None" /\ w.batch_table # table
              THEN FlushBatch(w, env1)
              ELSE [w |-> w, raised |-> FALSE, flushed |-> FALSE]
        w2 == [f1.w EXCEPT !.batch_table = table, !.batch_data = Append(@, row)]
        f2 == IF Len(w2.batch_data) > size
              THEN FlushBatch(w2, env2)
              ELSE [w |-> w2, raised |-> FALSE, flushed |-> FALSE]
    IN  IF f1.raised
        THEN [w |-> f1.w, raised |-> TRUE, flushed |-> FALSE, appended |-> FALSE,
              failed |-> TRUE]
        ELSE [w |-> f2.w, raised |-> FALSE, flushed |-> f1.flushed \/ f2.flushed,
              appended |-> TRUE, failed |-> f2.raised]

\* A faulty variant of add_to_batch, used to show that the one-table
\* property below depends on the flush at a change of table: the new row is
\* appended to whatever the buffer holds.
AddToBatchOpNoSwitchFlush(w, table, row, size, env1, env2) ==
    LET w2 == [w EXCEPT !.batch_table = table, !.batch_data = Append(@, row)]
        f2 == IF Len(w2.batch_data) >= size
              THEN FlushBatch(w2, env2)
              ELSE [w |-> w2, raised |-> FALSE, flushed |-> FALSE]
    IN  [w |-> f2.w, raised |-> FALSE, flushed |-> f2.flushed,
         appended |-> TRUE, failed |-> f2.raised]

\* add_to_batch: env1 is the environment of the flush on a change of table,
\* env2 that of the flush on reaching batch_size.  `raised`: the call raised;
\* `failed`: a flush_batch it made raised (the one on reaching batch_size is
\* caught and printed).
AddToBatchOp(w, table, row, size, env1, env2) ==
    LET f1 == IF w.batch_table # "None" /\ w.batch_table # table
              THEN FlushBatch(w, env1)
              ELSE [w |-> w, raised |-> FALSE, flushed |-> FALSE]
        w2 == [f1.w EXCEPT !.batch_table = table, !.batch_data = Append(@, row)]
        f2 == IF Len(w2.batch_data) >= size
              THEN FlushBatch(w2, env2)
              ELSE [w |-> w2, raised |-> FALSE, flushed |-> FALSE]
    IN  IF f1.raised
        THEN [w |-> f1.w, raised |-> TRUE, flushed |-> FALSE, appended |-> FALSE,
              failed |-> TRUE]
        ELSE [w |-> f2.w, raised |-> FALSE, flushed |-> f1.flushed \/ f2.flushed,
              appended |-> TRUE, failed |-> f2.raised]

Occ(seq, r) == Cardinality({i \in 1..Len(seq) : seq[i] = r})

\* The number of times row r stands in the dump files d[1..h].
RECURSIVE SumOcc(_, _, _)
SumOcc(d, r, h) == IF h = 0 THEN 0 ELSE Occ(d[h], r) + SumOcc(d, r, h - 1)

\* spilt after a call that turned the dump files d0 into d1.
NoteSpills(s, d0, d1) ==
    [r \in DOMAIN s |-> s[r] + SumOcc(d1, r, NumHashes) - SumOcc(d0, r, NumHashes)]

SetWriter(w) ==
    /\ spilt' = NoteSpills(spilt, dumps, w.dumps)
    /\ conn' = w.conn
    /\ batch_data' = w.batch_data
    /\ batch_table' = w.batch_table
    /\ committed' = w.committed
    /\ dumps' = w.dumps

FlushEnvs(needed, nrows) == IF needed THEN Envs(DefaultRetries, nrows) ELSE {NoEnv}

\* A caller hands the next row to add_to_batch.
AddToBatch ==
    /\ nextRow <= MaxRows
    /\ \E table \in Tables :
         LET switch == batch_table # "None" /\ batch_table # table /\ batch_data # <<>>
             nafter == IF switch THEN 1 ELSE Len(batch_data) + 1
         IN  \E env1 \in FlushEnvs(switch, Len(batch_data)),
                env2 \in FlushEnvs(nafter >= db_batch_size, nafter) :
                LET r == AddToBatchOp(Writer, table, nextRow, db_batch_size, env1, env2)
                IN  /\ SetWriter(r.w)
                    /\ buffered' = IF r.appended THEN buffered \cup {nextRow} ELSE buffered
                    /\ submitted' = (nextRow :> table) @@ submitted
                    /\ lastCall' = [op |-> "add_to_batch", raised |-> r.raised,
                                    flushed |-> r.flushed, failed |-> r.failed,
                                    table |-> table, table0 |-> batch_table,
                                    data0 |-> batch_data]
    /\ nextRow' = nextRow + 1
    /\ UNCHANGED <<db_batch_size, nflush, foreign, passes, sxVars, orchVars>>

\* A caller calls flush_batch.
FlushBatchCall ==
    /\ nflush < MaxFlushCalls
    /\ nflush' = nflush + 1
    /\ \E env \in FlushEnvs(batch_data # <<>>, Len(batch_data)) :
         LET r == FlushBatch(Writer, env)
         IN  /\ SetWriter(r.w)
             /\ lastCall' = [op |-> "flush_batch", raised |-> r.raised,
                             flushed |-> r.flushed, data0 |-> batch_data]
    /\ UNCHANGED <<db_batch_size, buffered, nextRow, submitted, foreign, passes, sxVars,
                   orchVars>>

\* The writer in use; the orchestrator is constructed and not started.
InitDB ==
    /\ OrchInit(NewCheckpoint(1, 1), 1, 1, {}, 0)
    /\ force_restart = FALSE
    /\ \E size \in 1..MaxDbBatchSize : WriterInit(size)

NextDB ==
    \/ AddToBatch
    \/ FlushBatchCall

SpecDB == InitDB /\ [][NextDB]_vars

\* The values of the parameter `data` a caller can pass with the rows from
\* `first` on: nothing, an empty list, one tuple, a list of tuples.
DataArgs(first) ==
    {NoData, ListData(<<>>)}
    \cup (IF first <= MaxRows THEN {TupleData(first)} ELSE {})
    \cup {ListData([k \in 1..n |-> first + k - 1]) :
            n \in {m \in 1..MaxExecRows : first + m - 1 <= MaxRows}}

ExecTables == {"t1"}

\* A caller calls safe_execute with a statement on one table.  lastCall keeps
\* the arguments, the faults met and the state the call started from.
SafeExecuteWith(retryArgs) ==
    /\ nflush < MaxExecCalls
    /\ nflush' = nflush + 1
    /\ \E table \in ExecTables, data \in DataArgs(nextRow), retries \in retryArgs,
          use_transaction \in BOOLEAN, enable_emergency_dumps \in BOOLEAN,
          sustain_emergency_dumps \in BOOLEAN :
         \E env \in IF retries >= 1 THEN Envs(retries, Len(data.rows)) ELSE {NoEnv} :
            LET call == [table |-> table, data |-> data, retries |-> retries,
                         use_transaction |-> use_transaction,
                         enable_emergency_dumps |-> enable_emergency_dumps,
                         sustain_emergency_dumps |-> sustain_emergency_dumps]
                r == SafeExecute(Writer, call, env)
            IN  /\ conn' = r.conn
                /\ committed' = r.committed
                /\ dumps' = r.dumps
                /\ spilt' = NoteSpills(spilt, dumps, r.dumps)
                /\ nextRow' = nextRow + Len(data.rows)
                /\ lastCall' = [op |-> "safe_execute", raised |-> r.raised,
                                flushed |-> FALSE, call |-> call, env |-> env,
                                attempts |-> r.attempts, rollbacks |-> r.rollbacks,
                                opens |-> r.opens, closes |-> r.closes,
                                committed0 |-> committed, dumps0 |-> dumps]
    /\ UNCHANGED <<batch_data, batch_table, db_batch_size, buffered, submitted, foreign,
                   passes, sxVars, orchVars>>

\* The call with a positive number of retries.
SafeExecuteCall == SafeExecuteWith(1..MaxExecRetries)

NextExec == SafeExecuteCall

SpecExec == InitDB /\ [][NextExec]_vars

\* The values of the parameter `retries` around zero: the type is int and
\* no value is rejected.
RetryArgs == (0 - 1)..1

\* The call with any of them.
SafeExecuteAnyRetries == SafeExecuteWith(RetryArgs)

NextExecAny == SafeExecuteAnyRetries

SpecExecAny == InitDB /\ [][NextExecAny]_vars

(***************************************************************************)
(* Two threads in safe_execute on one writer.  A step is what a thread     *)
(* does between two points where the other can run: the body of a          *)
(* `with self.lock`, or the statements between two of them.                *)
(***************************************************************************)
\* What no step of safe_execute touches.
SxRest ==
    UNCHANGED <<batch_data, batch_table, db_batch_size, buffered, nextRow, nflush,
                submitted, foreign, passes, lastCall, orchVars>>

\* `with self.lock:` at the head of an attempt.
SxEnter(t) ==
    /\ sx[t].pc = "loop"
    /\ sx[t].attempt < sx[t].call.retries
    /\ lock = 0
    /\ lock' = t
    /\ sx' = [sx EXCEPT ![t].pc = "locked"]
    /\ UNCHANGED <<conn, connOwner, committed, dumps, spilt>>
    /\ SxRest

\* `for attempt in range(retries)` is exhausted: on to `finally`.
SxExit(t) ==
    /\ sx[t].pc = "loop"
    /\ sx[t].attempt >= sx[t].call.retries
    /\ sx' = [sx EXCEPT ![t].pc = "finally"]
    /\ UNCHANGED <<lock, conn, connOwner, committed, dumps, spilt>>
    /\ SxRest

\* The body of the attempt, the lock held: open the connection if there is
\* none, cursor, BEGIN, execute, commit.  sqlite3 raises ProgrammingError (a
\* sqlite3.Error) when the connection was created by another thread; the
\* first sx[t].nerr attempts that get to the statement meet a driver error.
SxAttempt(t) ==
    /\ sx[t].pc = "locked"
    /\ lock = t
    /\ lock' = 0
    /\ LET owner == IF conn = "none" THEN t ELSE connOwner
           failed == owner # t \/ sx[t].attempt + 1 <= sx[t].nerr
       IN  /\ conn' = "open"
           /\ connOwner' = owner
           /\ committed' = IF failed THEN committed
                           ELSE BagAddAll(committed, Inserted(sx[t].call))
           /\ sx' = [sx EXCEPT ![t].pc = IF failed THEN "handler" ELSE "finally",
                                ![t].attempt = @ + 1,
                                ![t].own = (owner = t)]
    /\ UNCHANGED <<dumps, spilt>>
    /\ SxRest

\* `except sqlite3.Error`, no lock held: rollback of a transactional call
\* (AttributeError when conn is None, ProgrammingError when it is another
\* thread's: both leave through `except Exception` as RuntimeError), then on
\* the last attempt the dump and the raise, else the sleep.
SxHandler(t) ==
    /\ sx[t].pc = "handler"
    /\ LET c == sx[t].call
           rollbackRaises == c.use_transaction /\ (conn = "none" \/ connOwner # t)
           last == sx[t].attempt = c.retries
           spills == ~rollbackRaises /\ last /\ Truthy(c.data) /\ c.enable_emergency_dumps
           raises == \/ rollbackRaises
                     \/ last /\ ~(spills /\ c.sustain_emergency_dumps)
           d == IF spills
                THEN DumpRows(dumps, c.data.rows, 1,
                              [dumpFailAt |-> 0, hashes |-> [k \in 1..Len(c.data.rows) |-> t]]).dumps
                ELSE dumps
       IN  /\ dumps' = d
           /\ spilt' = NoteSpills(spilt, dumps, d)
           /\ sx' = [sx EXCEPT ![t].pc = IF raises THEN "finally" ELSE "loop",
                                ![t].raised = IF raises THEN "RuntimeError" ELSE @]
    /\ UNCHANGED <<lock, conn, connOwner, committed>>
    /\ SxRest

\* `finally: self.close_connection()`: `with self.lock:`
SxCloseEnter(t) ==
    /\ sx[t].pc = "finally"
    /\ lock = 0
    /\ lock' = t
    /\ sx' = [sx EXCEPT ![t].pc = "closing"]
    /\ UNCHANGED <<conn, connOwner, committed, dumps, spilt>>
    /\ SxRest

\* close_connection, the lock held: `if self.conn: self.conn.close();
\* self.conn = None`.  close() on another thread's connection raises
\* ProgrammingError, which leaves safe_execute in place of its result.
SxClose(t) ==
    /\ sx[t].pc = "closing"
    /\ lock = t
    /\ lock' = 0
    /\ IF conn = "open" /\ connOwner # t
       THEN /\ sx' = [sx EXCEPT ![t].pc = "done", ![t].raised = "ProgrammingError"]
            /\ UNCHANGED <<conn, connOwner>>
       ELSE /\ sx' = [sx EXCEPT ![t].pc = "done"]
            /\ conn' = "none"
            /\ connOwner' = 0
    /\ UNCHANGED <<committed, dumps, spilt>>
    /\ SxRest

\* Thread t calls safe_execute with one row of its own for table t1.
ExecCall(t, retries, use_transaction, enable_emergency_dumps, sustain_emergency_dumps) ==
    [table |-> "t1", data |-> TupleData(t), retries |-> retries,
     use_transaction |-> use_transaction,
     enable_emergency_dumps |-> enable_emergency_dumps,
     sustain_emergency_dumps |-> sustain_emergency_dumps]

\* Both threads have called safe_execute with the same options; nerr[t] of
\* thread t's attempts meet a driver error.
InitRace ==
    /\ OrchInit(NewCheckpoint(1, 1), 1, 1, {}, 0)
    /\ force_restart = FALSE
    /\ foreign = NoForeign
    /\ spilt = NoDumps.spilt
    /\ passes = <<>>
    /\ lock = 0
    /\ connOwner = 0
    /\ conn = "none"
    /\ batch_data = <<>>
    /\ batch_table = "None"
    /\ db_batch_size = 1
    /\ committed = EmptyMap
    /\ dumps = NoDumps.dumps
    /\ buffered = {}
    /\ nextRow = 1
    /\ nflush = 0
    /\ submitted = EmptyMap
    /\ lastCall = NoCall
    /\ \E retries \in 1..MaxExecRetries, use_transaction \in BOOLEAN,
          enable_emergency_dumps \in BOOLEAN, sustain_emergency_dumps \in BOOLEAN :
         \E nerr \in [ExecThreads -> 0..retries] :
            sx = [t \in ExecThreads |->
                    [pc |-> "loop",
                     call |-> ExecCall(t, retries, use_transaction,
                                       enable_emergency_dumps, sustain_emergency_dumps),
                     nerr |-> nerr[t], attempt |-> 0, own |-> FALSE, raised |-> "no"]]

NextRace ==
    \E t \in ExecThreads :
        \/ SxEnter(t)
        \/ SxExit(t)
        \/ SxAttempt(t)
        \/ SxHandler(t)
        \/ SxCloseEnter(t)
        \/ SxClose(t)

SpecRace == InitRace /\ [][NextRace]_vars

(***************************************************************************)
(* gather_dump_data.                                                       *)
(***************************************************************************)
\* The path of a dump file, split at "_":
\* dumps/emergency_dump_<db name>_<hash>.csv
FileTokens(file) == <<"dumps/emergency", "dump">> \o file.db \o <<"hash.csv">>

\* `f"_{self._db_name}_" in csv_file`: the parts of the name stand in the
\* path one after the other, an underscore before and after them.
NameMatches(file) ==
    LET path == FileTokens(file)
    IN  \E i \in 2..(Len(path) - Len(DbName)) :
            SubSeq(path, i, i + Len(DbName) - 1) = DbName

OwnFile(h) == [db |-> DbName, hash |-> h]

\* The CSV files of the dumps folder in the order they are visited, and what
\* each holds (no rows: no such file).
FolderFiles == [h \in HashVals |-> OwnFile(h)]
               \o [k \in 1..1 |-> [db |-> <<"a", "db">>, hash |-> 1]]
               \o [k \in 1..1 |-> [db |-> <<"other">>, hash |-> 1]]

Folder(d, f) ==
    [file \in {FolderFiles[k] : k \in 1..Len(FolderFiles)} |->
        IF file.db = DbName THEN d[file.hash] ELSE f[file]]

\* A row as csv.reader returns it: every field a string.  The row with its
\* fields turned into strings is written as the negative of the row.
FromCsv(row) == 0 - row

\* Manipulator.delete_file
DeleteFile(folder, file) == [folder EXCEPT ![file] = <<>>]

\* What makes the insert of a row fail in the end: every attempt meets a
\* driver error.
GatherFailEnv ==
    [connFails |-> FALSE, errs |-> [k \in 1..DefaultRetries |-> "execute"],
     dumpFailAt |-> 0, hashes |-> <<>>]

\* The loop `for row in reader` over one file from row k on: safe_execute
\* for every row; the row numbered failAt meets GatherFailEnv.
RECURSIVE ReplayFile(_, _, _, _, _)
ReplayFile(w, table, rows, k, failAt) ==
    IF k > Len(rows) THEN [w |-> w, raised |-> FALSE]
    ELSE LET r == SafeExecute(w, [table |-> table,
                                  data |-> TupleData(FromCsv(rows[k])),
                                  retries |-> DefaultRetries,
                                  use_transaction |-> TRUE,
                                  enable_emergency_dumps |-> FALSE,
                                  sustain_emergency_dumps |-> FALSE],
                              IF k = failAt THEN GatherFailEnv ELSE NoEnv)
             w2 == [w EXCEPT !.conn = r.conn, !.committed = r.committed,
                             !.dumps = r.dumps]
         IN  IF r.raised THEN [w |-> w2, raised |-> TRUE]
             ELSE ReplayFile(w2, table, rows, k + 1, failAt)

\* A faulty variant of the loop over the files, used to show that the
\* deletion property below depends on it: a file is deleted whether or not
\* the replay of its rows failed.
RECURSIVE ReplayFilesDeleteAlways(_, _, _, _, _)
ReplayFilesDeleteAlways(st, table, delete_dumps, k, plan) ==
    IF k > Len(FolderFiles) THEN st
    ELSE LET file == FolderFiles[k]
             rows == st.folder[file]
         IN  IF rows = <<>> \/ ~NameMatches(file)
             THEN ReplayFilesDeleteAlways(st, table, delete_dumps, k + 1, plan)
             ELSE LET r == ReplayFile(st.w, table, rows, 1, plan[file])
                      fo == IF delete_dumps
                            THEN DeleteFile(st.folder, file) ELSE st.folder
                  IN  ReplayFilesDeleteAlways([w |-> r.w, folder |-> fo], table,
                                              delete_dumps, k + 1, plan)

\* The loop `for csv_file in csv_files` from file k on.  st.w: the writer,
\* st.folder: the files.  An exception in a file is printed and the loop
\* goes on with the next file.
RECURSIVE ReplayFiles(_, _, _, _, _)
ReplayFiles(st, table, delete_dumps, k, plan) ==
    IF k > Len(FolderFiles) THEN st
    ELSE LET file == FolderFiles[k]
             rows == st.folder[file]
         IN  IF rows = <<>> \/ ~NameMatches(file)
             THEN ReplayFiles(st, table, delete_dumps, k + 1, plan)
             ELSE LET r == ReplayFile(st.w, table, rows, 1, plan[file])
                      fo == IF ~r.raised /\ delete_dumps
                            THEN DeleteFile(st.folder, file) ELSE st.folder
                  IN  ReplayFiles([w |-> r.w, folder |-> fo], table, delete_dumps,
                                  k + 1, plan)

\* `ORDER BY name LIMIT 1` over the tables of the database.
FirstTable == "t1"

\* A caller calls gather_dump_data(table_name, "dumps", delete_dumps).
\* prepFails: the database cannot be read for the table and column names,
\* and the call raises before it looks at the folder.
GatherDumpData ==
    /\ Len(passes) < MaxGatherPasses
    /\ \E table_name \in Tables \cup {"None"}, delete_dumps \in BOOLEAN,
          prepFails \in BOOLEAN :
         LET table == IF table_name = "None" THEN FirstTable ELSE table_name
             folder == Folder(dumps, foreign)
         IN  \E plan \in [DOMAIN folder -> 0..MaxGatherRows] :
                /\ \A file \in DOMAIN folder : plan[file] <= Len(folder[file])
                /\ prepFails => \A file \in DOMAIN folder : plan[file] = 0
                /\ LET none == \A file \in DOMAIN folder : folder[file] = <<>>
                       w0 == [Writer EXCEPT !.conn = "open"]
                       st == IF prepFails THEN [w |-> Writer, folder |-> folder]
                             ELSE IF none THEN [w |-> w0, folder |-> folder]
                             ELSE ReplayFiles([w |-> w0, folder |-> folder], table,
                                              delete_dumps, 1, plan)
                   IN  /\ conn' = st.w.conn
                       /\ committed' = st.w.committed
                       /\ dumps' = [h \in HashVals |-> st.folder[OwnFile(h)]]
                       /\ foreign' = [file \in ForeignFiles |-> st.folder[file]]
                       /\ passes' = Append(passes, delete_dumps)
                       /\ lastCall' = [op |-> "gather_dump_data", raised |-> prepFails,
                                       flushed |-> FALSE, table |-> table,
                                       delete_dumps |-> delete_dumps, plan |-> plan,
                                       committed0 |-> committed, dumps0 |-> dumps,
                                       foreign0 |-> foreign]
    /\ UNCHANGED <<batch_data, batch_table, db_batch_size, buffered, nextRow, nflush,
                   submitted, spilt, sxVars, orchVars>>

\* What earlier runs on this database left in the dumps folder when row r
\* was handed to add_to_batch for table tab[r] and spilt to the file with
\* suffix place[r] (0: the row was committed).
LeftBy(place, tab) ==
    [dumps |-> [h \in HashVals |->
                   SelectSeq([r \in 1..MaxGatherRows |-> r], LAMBDA r : place[r] = h)],
     spilt |-> [r \in 1..MaxRows |->
                   IF r \in DOMAIN place /\ place[r] # 0 THEN 1 ELSE 0],
     submitted |-> [r \in {x \in 1..MaxGatherRows : place[x] # 0} |-> tab[r]]]

\* A writer constructed for reconciliation in a dumps folder that earlier
\* runs on this database, and writers of other databases, have used.
InitGather ==
    /\ OrchInit(NewCheckpoint(1, 1), 1, 1, {}, 0)
    /\ force_restart = FALSE
    /\ \E place \in [1..MaxGatherRows -> {0} \cup HashVals],
          tab \in [1..MaxGatherRows -> Tables], present \in {{}, ForeignFiles} :
         WriterInitIn(1, [f \in ForeignFiles |->
                             IF f \in present THEN <<ForeignRow>> ELSE <<>>],
                      LeftBy(place, tab))

NextGather == GatherDumpData

SpecGather == InitGather /\ [][NextGather]_vars

(***************************************************************************)
(* Properties.                                                             *)
(***************************************************************************)
\* The status of file f in the TaskRecord of doc that lists it.
StatusOf(doc, f) ==
    LET i == CHOOSE k \in 1..Len(doc.tasks) : DictHas(doc.tasks[k].status, f)
    IN  DictGet(doc.tasks[i].status, f)

PlannerFinished == pc[0] \in {"m_sentinel", "m_join", "joined"}

\* C1: in every step of a run, the TaskRecord status of every file either
\* stays, or grows, or becomes -1; a status that is -1 stays -1.
C1_StatusMonotone ==
    [][\A f \in AllFiles :
          LET old == StatusOf(checkpoint_data, f)
              new == StatusOf(checkpoint_data', f)
          IN  IF old = DONE THEN new = DONE ELSE new = DONE \/ new >= old]_vars

\* C2: whenever the process is restarted while some location (the primary
\* path or a fallback) holds a persisted checkpoint, the construction
\* succeeds and every file that checkpoint records as -1 is -1 in the
\* restarted run.
C2_RestartResumesPersisted ==
    [][(alive = "down" /\ alive' # "down") =>
          \A p \in Paths :
             disk[p].kind = "doc" =>
                /\ alive' = "up"
                /\ \A f \in AllFiles :
                      StatusOf(disk[p].data[1], f) = DONE =>
                         StatusOf(checkpoint_data', f) = DONE]_vars

\* The files of the Tasks put so far, in the order they were put.
RECURSIVE FilesOf(_)
FilesOf(log) == IF log = <<>> THEN <<>> ELSE Head(log).files \o FilesOf(Tail(log))

PlannedFiles == {FilesOf(putLog)[k] : k \in 1..Len(FilesOf(putLog))}

\* C3: in a run that follows a process death, no file the loaded checkpoint
\* records as -1 is put in a batch, no file is put in two batches, and when
\* the planner has finished every file the loaded checkpoint records as not
\* -1 (status 0 included) is in a batch.
C3_ReplanAfterRestart ==
    (crashes > 0 /\ alive = "up") =>
       /\ \A f \in PlannedFiles : StatusOf(initDoc, f) # DONE
       /\ \A k1, k2 \in 1..Len(FilesOf(putLog)) :
             FilesOf(putLog)[k1] = FilesOf(putLog)[k2] => k1 = k2
       /\ PlannerFinished =>
             \A f \in AllFiles : StatusOf(initDoc, f) # DONE => f \in PlannedFiles

\* A restart from a persisted checkpoint in which a1 is -1 and a2 was
\* queued (progress 0) and not processed: a2 is planned again, a1 is not.
C3_Witness ==
    /\ crashes > 0 /\ alive = "up" /\ PlannerFinished
    /\ disk[Primary].kind = "doc"
    /\ StatusOf(initDoc, "a1") = DONE
    /\ "a2" \in DOMAIN initDoc.progress /\ initDoc.progress["a2"] = 0
    /\ StatusOf(initDoc, "a2") = 0
    /\ "a2" \in PlannedFiles /\ "a1" \notin PlannedFiles

InBuffer(row) == \E k \in 1..Len(batch_data) : batch_data[k] = row

IsCommitted(row) == \E t \in Tables : <<t, row>> \in DOMAIN committed

IsDumped(row) == \E h \in HashVals : \E k \in 1..Len(dumps[h]) : dumps[h][k] = row

\* C4: after any sequence of add_to_batch / flush_batch calls under any
\* pattern of database and dump failures, every row add_to_batch put in the
\* buffer is still in the buffer, or committed to the database, or in an
\* emergency dump file.
C4_NoRowLost ==
    \A row \in buffered : InBuffer(row) \/ IsCommitted(row) \/ IsDumped(row)

\* A flush whose every attempt failed: it cleared the buffer, and a row that
\* was in it is in a dump file and not in the database.
C4_Witness ==
    /\ lastCall.flushed /\ batch_data = <<>>
    /\ \E row \in buffered : IsDumped(row) /\ ~IsCommitted(row)
    /\ \E row \in buffered : IsCommitted(row) /\ ~IsDumped(row)

\* A worker is inside the mutate-then-persist section of
\* _update_task_progress from the assignments to the end of the write.
InUpdateSection(w) == pc[w] \in {"w_open", "w_close"}

\* C5: no two worker threads are inside the mutate-then-persist section of
\* _update_task_progress at once.
C5_UpdateSectionExclusive ==
    \A w1, w2 \in WorkerIds :
       (InUpdateSection(w1) /\ InUpdateSection(w2)) => w1 = w2

\* C6: with no failing location, once the workers are joined the file at the
\* primary path holds the serialized in-memory checkpoint.
C6_FinalPersistedIsMemory ==
    (pc[0] = "joined" /\ failing = {}) =>
       disk[Primary] = FileOf(JsonDump(checkpoint_data))

\* progress[f] = 0 in doc: f is marked as queued.
MarkedQueued(doc, f) == f \in DOMAIN doc.progress /\ doc.progress[f] = 0

\* C9: in the step that puts a batch on the queue, every file of the batch
\* is already marked 0 in the in-memory checkpoint and in a checkpoint file.
C9_MarkedAndPersistedBeforePut ==
    [][Len(putLog') > Len(putLog) =>
          \A k \in 1..Len(putLog'[Len(putLog')].files) :
             LET f == putLog'[Len(putLog')].files[k]
             IN  /\ MarkedQueued(checkpoint_data, f)
                 /\ \E p \in Paths :
                       disk[p].kind = "doc" /\ MarkedQueued(disk[p].data[1], f)]_vars

\* The index of the TaskRecord of doc with this directory.
RecordOf(doc, directory) == FindTask(doc.tasks, directory)

\* C7: every Task put on the queue has between 1 and batch_size files, all
\* of them entries of one TaskRecord with a status other than -1 (the Task
\* carries these statuses); a TaskRecord whose statuses are all -1 at the
\* start of the run yields no Task.
C7_BatchesWellFormed ==
    /\ batch_size >= 1
    /\ \A i \in 1..Len(putLog) :
          LET t == putLog[i]
              r == RecordOf(initDoc, t.directory)
          IN  /\ t.kind = "task"
              /\ Len(t.files) >= 1 /\ Len(t.files) <= batch_size
              /\ r # 0
              /\ Len(t.status) = Len(t.files)
              /\ \A k \in 1..Len(t.files) :
                    /\ DictHas(initDoc.tasks[r].status, t.files[k])
                    /\ t.status[k].file = t.files[k]
                    /\ t.status[k].st # DONE
                    /\ t.status[k].st = DictGet(initDoc.tasks[r].status, t.files[k])
    /\ \A r \in 1..Len(initDoc.tasks) :
          DictAllDone(initDoc.tasks[r].status) =>
             \A i \in 1..Len(putLog) : putLog[i].directory # initDoc.tasks[r].directory

\* Planning has finished on a checkpoint with A = {a1: 0, a2: -1, a3: 0} and
\* B complete, batch_size 2: the one Task is (A, [a1, a3]).
C7_Witness ==
    /\ PlannerFinished /\ batch_size = 2
    /\ DictAllDone(initDoc.tasks[2].status)
    /\ StatusOf(initDoc, "a2") = DONE
    /\ Len(putLog) = 1 /\ putLog[1].files = <<"a1", "a3">>

\* The incomplete files of a status dict, in its order.
RECURSIVE Incomplete(_)
Incomplete(status) ==
    IF status = <<>> THEN <<>>
    ELSE IF Head(status).st # DONE
         THEN <<Head(status).file>> \o Incomplete(Tail(status))
         ELSE Incomplete(Tail(status))

\* The Tasks of log with this directory, in the order of log.
RECURSIVE TasksFor(_, _)
TasksFor(log, directory) ==
    IF log = <<>> THEN <<>>
    ELSE IF Head(log).directory = directory
         THEN <<Head(log)>> \o TasksFor(Tail(log), directory)
         ELSE TasksFor(Tail(log), directory)

IsPrefix(s, t) == Len(s) <= Len(t) /\ \A k \in 1..Len(s) : s[k] = t[k]

\* C8: for every TaskRecord, the files of its Tasks concatenated in the
\* order they were put are the first of the record's incomplete files in
\* listing order, and all of them once the planner has passed the record;
\* every Task followed by another Task of its record has exactly batch_size
\* files; the Tasks of an earlier record are put before those of a later one.
C8_BatchesPartitionIncomplete ==
    /\ \A r \in 1..Len(initDoc.tasks) :
          LET mine == TasksFor(putLog, initDoc.tasks[r].directory)
              want == Incomplete(initDoc.tasks[r].status)
          IN  /\ IsPrefix(FilesOf(mine), want)
              /\ (PlannerFinished \/ r < ti) => FilesOf(mine) = want
              /\ \A i \in 1..(Len(mine) - 1) : Len(mine[i].files) = batch_size
    /\ \A i, j \in 1..Len(putLog) :
          i < j => RecordOf(initDoc, putLog[i].directory)
                      <= RecordOf(initDoc, putLog[j].directory)

\* Three incomplete files in A and one in B with batch_size 2: the batches
\* are [a1, a2], [a3], [b1], in this order.
C8_Witness ==
    /\ PlannerFinished /\ batch_size = 2
    /\ Len(putLog) = 3
    /\ putLog[1].files = <<"a1", "a2">>
    /\ putLog[2].files = <<"a3">>
    /\ putLog[3].files = <<"b1">>

\* The number of sentinels in a queue.
RECURSIVE CountNone(_)
CountNone(q) ==
    IF q = <<>> THEN 0
    ELSE (IF Head(q) = NoneItem THEN 1 ELSE 0) + CountNone(Tail(q))

\* C10: start_processing puts at most max_workers sentinels, none before
\* the planner has put every batch, and exactly max_workers by the time it
\* joins; a worker dequeues at most one sentinel, puts it back once before it
\* exits, and runs the callback on Tasks only; after the join every worker
\* has dequeued one sentinel and put one back, and the queue holds
\* max_workers sentinels and nothing else.
C10_SentinelProtocol ==
    /\ sent <= max_workers
    /\ sent > 0 => (PlannerFinished /\ ti > Len(Tasks))
    /\ sent > 0 => \A r \in 1..Len(initDoc.tasks) :
                      FilesOf(TasksFor(putLog, initDoc.tasks[r].directory))
                         = Incomplete(initDoc.tasks[r].status)
    /\ pc[0] \in {"m_join", "joined"} => sent = max_workers
    /\ \A w \in WorkerIds :
          /\ noneGot[w] <= 1
          /\ nonePut[w] <= noneGot[w]
          /\ pc[w] = "reput" => (noneGot[w] = 1 /\ nonePut[w] = 0)
          /\ pc[w] = "exit" => (noneGot[w] = 1 /\ nonePut[w] = 1)
          /\ pc[w] \in {"cb", "w_open", "w_close"} => cur[w].kind = "task"
          /\ noneGot[w] = 1 => pc[w] \in {"reput", "exit"}
    /\ pc[0] = "joined" =>
          /\ \A w \in ActiveWorkers : pc[w] = "exit"
          /\ CountNone(task_queue) = max_workers
          /\ Len(task_queue) = max_workers

\* Two workers, both of which processed a Task, have exited on a sentinel
\* each, and the pool is joined.
C10_Witness ==
    /\ pc[0] = "joined" /\ max_workers = 2
    /\ Len(putLog) >= 2 /\ nrep = 2
    /\ \A w \in ActiveWorkers : nonePut[w] = 1

(***************************************************************************)
(* The worker pool                                                         *)
(***************************************************************************)
TasksIn(queue) == SelectSeq(queue, LAMBDA item : item # NoneItem)

InCallback(w) == pc[w] \in {"cb", "w_open", "w_close"}

PoolJoined == alive = "up" /\ pc[0] = "joined"

\* C11: every Task put on the queue is taken off it by one worker and handed
\* to the callback once, so the Tasks handed to the callback followed by the
\* Tasks still queued are the Tasks put, none twice; a worker that has seen
\* its sentinel leaves no Task behind in the queue; once the pool is joined
\* the queue holds no Task and every Task put was handed to the callback.
C11_EachTaskHandledOnce ==
    alive = "up" =>
        /\ cbLog \o TasksIn(task_queue) = putLog
        /\ \A j, k \in 1..Len(putLog) : putLog[j] = putLog[k] => j = k
        /\ \A w \in ActiveWorkers :
              /\ pc[w] \in {"reput", "exit"} => TasksIn(task_queue) = <<>>
              /\ InCallback(w) =>
                    /\ \E k \in 1..Len(cbLog) : cbLog[k] = cur[w]
                    /\ \A v \in ActiveWorkers \ {w} : InCallback(v) => cur[v] # cur[w]
        /\ pc[0] = "joined" =>
              /\ TasksIn(task_queue) = <<>>
              /\ cbLog = putLog
              /\ \A w \in ActiveWorkers : pc[w] = "exit"

\* Two workers were in the callback at once, each with its own Task, while
\* a third Task waited in the queue.
C11_Witness ==
    /\ alive = "up"
    /\ \A w \in WorkerIds : InCallback(w)
    /\ TasksIn(task_queue) # <<>>

\* The thread of worker w has ended: it left its loop and the thread helper
\* called after the loop has returned.
ThreadEnded(w) == pc[w] = "exit"

\* The state of the pool.
PoolState ==
    IF pc[0] = "m_start" THEN "idle"
    ELSE IF pc[0] = "joined" THEN "joined"
    ELSE IF sent = max_workers /\ pc[0] \in {"m_sentinel", "m_join"} THEN "draining"
    ELSE "running"

PoolStateStep ==
    PoolState' # PoolState =>
        <<PoolState, PoolState'>> \in
            {<<"idle", "running">>, <<"running", "draining">>, <<"draining", "joined">>}

\* C12: with every thread scheduled fairly and every callback invocation
\* ending, start_processing reaches the joined state and stays there, with
\* every worker thread ended, whatever the number of batches (none
\* included) and of workers; the pool goes from idle to running to draining
\* to joined and makes no other change of state.
C12_PoolReachesJoined ==
    /\ [][PoolStateStep]_vars
    /\ [](PoolJoined => \A w \in ActiveWorkers : ThreadEnded(w))
    /\ <>[]PoolJoined

\* A run with no batch at all has joined, with more than one worker.
C12_Witness ==
    /\ PoolJoined
    /\ putLog = <<>>
    /\ max_workers > 1
    /\ \A w \in ActiveWorkers : ThreadEnded(w)

\* C13: the step in which the callback of a worker raises puts that worker
\* back at the queue and changes nothing else: not the queue, not the
\* checkpoint, not what any other worker does; after a raise the pool still
\* joins, and when it has, every Task put on the queue was handed to the
\* callback and none is left.
C13_CallbackRaiseContained ==
    /\ [][nraise' # nraise =>
            \E w \in ActiveWorkers :
                /\ pc[w] = "cb" /\ pc'[w] = "get"
                /\ \A v \in Threads \ {w} : pc'[v] = pc[v] /\ cur'[v] = cur[v]
                /\ task_queue' = task_queue
                /\ checkpoint_data' = checkpoint_data /\ disk' = disk]_vars
    /\ [](nraise > 0 /\ PoolJoined => cbLog = putLog /\ TasksIn(task_queue) = <<>>)
    /\ (nraise > 0 ~> PoolJoined)

\* The only worker of a run is in the callback with a further Task after
\* its callback raised on an earlier one.
C13_Witness ==
    /\ alive = "up" /\ max_workers = 1
    /\ nraise > 0
    /\ pc[1] = "cb"
    /\ Len(cbLog) >= 2

(***************************************************************************)
(* handle_worker_update                                                    *)
(***************************************************************************)
\* The step is a handle_worker_update call.
UpdateCalled == lastUpdate' # lastUpdate

MalformedUpdate(update_info) ==
    \/ ~(UpdateKeys \subseteq update_info.keys)
    \/ update_info.dty # "str"
    \/ update_info.fty # "str"
    \/ update_info.sty # "int"

\* The call returned, changed nothing in memory and started no write.
UpdateDropped ==
    /\ ~lastUpdate'.raised
    /\ checkpoint_data' = checkpoint_data
    /\ pc' = pc /\ disk' = disk /\ writeVars' = writeVars

\* C14: a handle_worker_update call with a malformed update (a key missing,
\* directory or file not a string, status not an integer) returns without
\* raising into the callback, leaves the checkpoint in memory as it is and
\* writes no checkpoint.
C14_MalformedUpdateDropped ==
    [][UpdateCalled /\ MalformedUpdate(lastUpdate'.update) => UpdateDropped]_vars

\* The update names no record, or a file that is not one of the record's.
UnknownTarget(update_info) ==
    LET i == FindTask(checkpoint_data.tasks, update_info.directory)
    IN  i = 0 \/ ~DictHas(checkpoint_data.tasks[i].status, update_info.file)

\* C15: a handle_worker_update call with a well-formed update whose
\* directory matches no record, or whose file is not in the status of the
\* record matched, returns normally, leaves every status and the progress
\* as they are and writes no checkpoint.
C15_UnknownTargetNoEffect ==
    [][UpdateCalled /\ ~MalformedUpdate(lastUpdate'.update)
         /\ UnknownTarget(lastUpdate'.update) => UpdateDropped]_vars

\* The last call named a file of record B for record A, and was dropped.
C15_Witness ==
    /\ lastUpdate.n > 0
    /\ ~lastUpdate.raised
    /\ lastUpdate.update.keys = UpdateKeys
    /\ lastUpdate.update.directory = "A" /\ lastUpdate.update.file = "b1"
    /\ lastUpdate.update.sty = "int"
    /\ pc[1] = "cb"

(***************************************************************************)
(* _write_checkpoint                                                       *)
(***************************************************************************)
\* Thread t leaves the open of its write / the with-block of its write.
Opened(t) == pc[t] = "w_open" /\ pc'[t] # "w_open"
Closed(t) == pc[t] = "w_close" /\ pc'[t] # "w_close"

OnlyFileChanged(p) == \A q \in Paths \ {p} : disk'[q] = disk[q]

\* C16: a checkpoint write never ends the run.  It goes to the primary
\* location when that can be opened, else to the first fallback location,
\* in the listed order, that can be: this one location receives the
\* serialization of the state in memory and no other location is touched.
\* When no location can be opened, one critical message is logged, no file
\* and nothing in memory changes, and the thread carries on.
C16_PersistFallsBack ==
    [][\A t \in Threads :
        /\ Opened(t) =>
              /\ checkpoint_data' = checkpoint_data
              /\ IF \A p \in Paths : p \in failing
                 THEN /\ disk' = disk
                      /\ ncritical' = ncritical + 1
                      /\ pc'[t] = AfterWrite(t)
                 ELSE /\ \E i \in 1..Len(WritePaths) :
                            /\ WritePaths[i] \notin failing
                            /\ \A j \in 1..(i - 1) : WritePaths[j] \in failing
                            /\ wpath'[t] = WritePaths[i]
                            /\ OnlyFileChanged(WritePaths[i])
                      /\ wbuf'[t] = FileOf(JsonDump(checkpoint_data))
                      /\ ncritical' = ncritical
                      /\ pc'[t] = "w_close"
        /\ Closed(t) =>
              /\ OnlyFileChanged(wpath[t])
              /\ disk[wpath[t]] = Truncated => disk'[wpath[t]] = wbuf[t]
              /\ checkpoint_data' = checkpoint_data
              /\ pc'[t] = AfterWrite(t)]_vars

\* Primary and first fallback failing: the run has joined, the second
\* fallback location holds the final state and the later ones nothing.
C16_Witness ==
    /\ PoolJoined
    /\ failing = {WritePaths[1], WritePaths[2]}
    /\ disk[WritePaths[3]] = FileOf(JsonDump(checkpoint_data))
    /\ checkpoint_data # initDoc
    /\ \A i \in {1, 2, 4, 5} : disk[WritePaths[i]] = Absent

(***************************************************************************)
(* _initialize_checkpoint                                                  *)
(***************************************************************************)
\* The step is a construction.
Constructed == alive = "down" /\ alive' # "down"

\* C17: when the checkpoint file is absent, is not parsable, or holds a
\* document the validation does not accept, whatever that document is,
\* construction fails if force_restart is unset, and if it is set creates
\* and persists a fresh checkpoint in which every listed file has status 0.
C17_UnusableCheckpoint ==
    [][Constructed /\ ~LoadResult(disk[Primary]).ok =>
         IF force_restart'
         THEN /\ alive' = "up"
              /\ checkpoint_data' = NewCheckpoint(batch_size, max_workers)
              /\ disk'[Primary] = FileOf(JsonDump(checkpoint_data'))
         ELSE alive' = "failed"]_vars

\* The schema of a checkpoint document as specified.
SchemaHolds(fields) ==
    /\ RequiredKeys \subseteq DOMAIN fields
    /\ fields["task_name"].ty = "str"
    /\ fields["input_type_flags"] = JVal("list", 4, "bool")
    /\ fields["batch_size"].ty = "int" /\ fields["batch_size"].n > 0
    /\ fields["max_workers"].ty = "int" /\ fields["max_workers"].n > 0
    /\ fields["tasks"].ty = "list"
    /\ fields["progress"].ty = "dict"

\* C18: a JSON object at the checkpoint path is accepted by the load
\* exactly when the six required fields are present and well-typed: a
\* string task_name, input_type_flags of exactly four booleans, positive
\* integers batch_size and max_workers, a list tasks, a mapping progress;
\* fields the program does not know make no difference; a document that is
\* not accepted is rejected and construction fails.
C18_AcceptedIffSchemaHolds ==
    [][Constructed /\ ~force_restart' /\ disk[Primary].kind = "json"
         /\ disk[Primary].data[1].ty = "dict" =>
            /\ alive' = "up" <=> SchemaHolds(disk[Primary].data[1].fields)
            /\ alive' # "up" => alive' = "failed"]_vars

\* The file at the primary path is a checkpoint an earlier run persisted, or
\* a JSON object that satisfies the schema.
ValidAtPrimary ==
    \/ disk[Primary].kind = "doc"
    \/ /\ disk[Primary].kind = "json"
       /\ disk[Primary].data[1].ty = "dict"
       /\ SchemaHolds(disk[Primary].data[1].fields)

\* C37: a construction with force_restart on a valid checkpoint file loads
\* it: the records with their statuses and the progress in memory are those
\* of the file, and no file is written; a construction with force_restart
\* that writes a file found no valid checkpoint.
C37_ForceRestartKeepsValid ==
    [][Constructed /\ force_restart' =>
          /\ ValidAtPrimary =>
                /\ alive' = "up"
                /\ disk' = disk
                /\ disk[Primary].kind = "doc" =>
                      /\ checkpoint_data'.tasks = disk[Primary].data[1].tasks
                      /\ checkpoint_data'.progress = disk[Primary].data[1].progress
                /\ disk[Primary].kind = "json" =>
                      \A k \in RequiredKeys \ {"input_type_flags"} :
                          checkpoint_data'.fields[k] = disk[Primary].data[1].fields[k]
          /\ disk' # disk => ~ValidAtPrimary]_vars

\* Constructed with force_restart on the checkpoint of an earlier run that
\* had made progress: the statuses and the progress of the file are in memory.
C37_Witness ==
    /\ alive = "up"
    /\ force_restart
    /\ disk[Primary].kind = "doc"
    /\ checkpoint_data.tasks = disk[Primary].data[1].tasks
    /\ StatusOf(checkpoint_data, "a1") = DONE
    /\ StatusOf(checkpoint_data, "a3") = 1
    /\ checkpoint_data.progress = MapSet(MapSet(EmptyMap, "a1", DONE), "b1", 0)

\* C19: when the file at the primary path is what persisting the valid
\* state S wrote, the load succeeds and the state in memory equals S: name,
\* the 4-tuple of flags, batch_size, max_workers, the records in order with
\* their statuses, and the progress.
C19_PersistLoadRoundTrip ==
    [][Constructed /\ disk[Primary].kind = "doc"
         /\ disk = WriteCheckpointAlone(NoFiles, initDoc, {}) =>
            /\ alive' = "up"
            /\ checkpoint_data' = initDoc]_vars

\* A state with progress entries and a tuple of flags was loaded from the
\* file, which holds the flags as a list.
C19_Witness ==
    /\ alive = "up"
    /\ disk[Primary].kind = "doc"
    /\ disk[Primary].data[1].input_type_flags.py = "list"
    /\ checkpoint_data.input_type_flags.py = "tuple"
    /\ DOMAIN checkpoint_data.progress = {"a1", "b1"}
    /\ JsonDump(checkpoint_data) = disk[Primary].data[1]

(***************************************************************************)
(* _manage_tasks on malformed entries                                      *)
(***************************************************************************)
WellFormed(task) == IsRecord(task) /\ ~InvalidTaskData(task)

\* C20: the planner does not raise on a malformed entry of tasks (no or an
\* empty directory, a status that is no mapping, an entry that is no record)
\* wherever it stands, the first position included; no batch is put for
\* it; and when the planner has finished, the batches put for every
\* well-formed record are all its incomplete files.
C20_MalformedRecordSkipped ==
    /\ pc[0] # "m_raised"
    /\ \A i \in 1..Len(putLog) :
          \E r \in 1..Len(initDoc.tasks) :
             /\ WellFormed(initDoc.tasks[r])
             /\ putLog[i].directory = initDoc.tasks[r].directory
    /\ PlannerFinished =>
          \A r \in 1..Len(initDoc.tasks) :
             WellFormed(initDoc.tasks[r]) =>
                FilesOf(TasksFor(putLog, initDoc.tasks[r].directory))
                   = Incomplete(initDoc.tasks[r].status)

(***************************************************************************)
(* progress and tasks                                                      *)
(***************************************************************************)
\* C21: in every state of a run, every file with an entry in progress has
\* there the status it has in its TaskRecord.
C21_ProgressAgreesWithTasks ==
    alive = "up" =>
        \A f \in DOMAIN checkpoint_data.progress :
            checkpoint_data.progress[f] = StatusOf(checkpoint_data, f)


\* The files of the batch the planner has put in the queue and not yet
\* marked in progress.
AwaitingMark == {cur[0].files[k] : k \in 1..Len(cur[0].files)}

\* C33: when the planner applies its queued mark to a batch, no worker has
\* reported a status for a file of that batch: none of its files has an
\* entry in progress (which is empty when the run starts and is written by
\* the mark and by reports only), so the mark's 0 replaces no reported status.
C33_MarkBeforeReport ==
    [][(pc[0] = "m_mark" /\ pc'[0] # "m_mark") =>
          \A f \in AwaitingMark : f \notin DOMAIN checkpoint_data.progress]_vars

\* The files of a TaskRecord, in the order of its status map.
RecordFiles(task) == [j \in 1..Len(task.status) |-> task.status[j].file]

\* C38: in every state of a run the TaskRecords are those the run was
\* constructed with, in the same order, each with the same directory and
\* the same files; and every key of progress is a file of one of them.
C38_FileSetsFixed ==
    /\ Len(checkpoint_data.tasks) = Len(initDoc.tasks)
    /\ \A i \in 1..Len(initDoc.tasks) :
          /\ checkpoint_data.tasks[i].directory = initDoc.tasks[i].directory
          /\ RecordFiles(checkpoint_data.tasks[i]) = RecordFiles(initDoc.tasks[i])
    /\ \A f \in DOMAIN checkpoint_data.progress :
          \E i \in 1..Len(initDoc.tasks) :
              DictHas(initDoc.tasks[i].status, f)

\* A worker has reported the file of another record under the directory of
\* its Task, after reports and marks had filled progress.
C38_Witness ==
    /\ lastUpdate.n = MaxUpdates
    /\ lastUpdate.update.directory = "A"
    /\ lastUpdate.update.file = "b1"
    /\ lastUpdate.update.keys = UpdateKeys
    /\ "a1" \in DOMAIN checkpoint_data.progress
    /\ checkpoint_data.tasks # initDoc.tasks
    /\ initDoc = NewCheckpoint(batch_size, max_workers)

(***************************************************************************)
(* safe_execute called directly.                                           *)
(***************************************************************************)
ExecCalled == lastCall.op = "safe_execute"

\* Every attempt of the last call met a driver error (sqlite3.Error), the
\* connection opened, and writing the dump files did not fail.
Exhausted ==
    /\ ExecCalled
    /\ lastCall.call.retries >= 1
    /\ ~lastCall.env.connFails
    /\ Len(lastCall.env.errs) = lastCall.call.retries
    /\ lastCall.env.dumpFailAt = 0

\* The rows a dump file gained in the last call.
Gained(h) == SubSeq(dumps[h], Len(lastCall.dumps0[h]) + 1, Len(dumps[h]))

InSeq(x, seq) == \E i \in 1..Len(seq) : seq[i] = x

\* Every row handed to the last call was written to a dump file in that call.
RowsSpilled ==
    \A k \in 1..Len(lastCall.call.data.rows) :
        \E h \in HashVals : InSeq(lastCall.call.data.rows[k], Gained(h))

NothingSpilled == dumps = lastCall.dumps0

ArtifactsWritten == {h \in HashVals : Gained(h) # <<>>}

\* C23: after a call of safe_execute with rows and emergency dumps enabled
\* in which every attempt failed, exactly one dump file was written to, and
\* it received every row of the call.
C23_OneArtifactHoldsAllRows ==
    (Exhausted /\ lastCall.call.enable_emergency_dumps /\ Truthy(lastCall.call.data)) =>
        \E h \in HashVals :
            /\ ArtifactsWritten = {h}
            /\ \A k \in 1..Len(lastCall.call.data.rows) :
                    InSeq(lastCall.call.data.rows[k], Gained(h))

BagCount(b, e) == IF e \in DOMAIN b THEN b[e] ELSE 0

\* C34: a call of safe_execute that has returned normally, whatever the
\* value of retries, has committed its statement or, with emergency dumps
\* enabled and sustained, has written the rows handed to it to dump files.
C34_ReturnMeansCommittedOrSpilled ==
    (ExecCalled /\ ~lastCall.raised) =>
        \/ /\ lastCall.attempts >= 1
           /\ Len(lastCall.env.errs) < lastCall.attempts
           /\ \A k \in 1..Len(lastCall.call.data.rows) :
                 BagCount(committed, Inserted(lastCall.call)[k])
                    > BagCount(lastCall.committed0, Inserted(lastCall.call)[k])
        \/ /\ lastCall.call.enable_emergency_dumps
           /\ lastCall.call.sustain_emergency_dumps
           /\ Truthy(lastCall.call.data)
           /\ RowsSpilled

\* The last call met fewer driver errors than it had attempts.
SucceededAt(k) ==
    /\ ExecCalled
    /\ ~lastCall.env.connFails
    /\ Len(lastCall.env.errs) = k - 1
    /\ k <= lastCall.call.retries

\* C30: a call of safe_execute makes at most `retries` attempts; one whose
\* k-th attempt is the first without a driver error makes exactly k attempts,
\* returns normally, writes no dump file and, when transactional, has rolled
\* back each of the k - 1 failed attempts, so that the rows are committed
\* once; one whose attempts all fail makes exactly `retries` attempts.
C30_RetriesBounded ==
    ExecCalled =>
        /\ lastCall.attempts <= lastCall.call.retries
        /\ \A k \in 1..lastCall.call.retries :
              SucceededAt(k) =>
                  /\ lastCall.attempts = k
                  /\ ~lastCall.raised
                  /\ NothingSpilled
                  /\ lastCall.call.use_transaction =>
                        /\ lastCall.rollbacks = k - 1
                        /\ committed = BagAddAll(lastCall.committed0,
                                                 Inserted(lastCall.call))
        /\ (~lastCall.env.connFails
                /\ Len(lastCall.env.errs) = lastCall.call.retries) =>
              /\ lastCall.attempts = lastCall.call.retries
              /\ lastCall.call.use_transaction =>
                    lastCall.rollbacks = lastCall.call.retries

C30_Witness ==
    /\ SucceededAt(2)
    /\ lastCall.call.use_transaction
    /\ lastCall.env.errs[1] = "commit"
    /\ lastCall.attempts = 2
    /\ lastCall.rollbacks = 1
    /\ Len(lastCall.call.data.rows) = 2
    /\ committed # lastCall.committed0


(***************************************************************************)
(* The batch buffer.                                                       *)
\* C31: when a call of safe_execute has returned or raised, after whatever
\* attempts, faults and options, the writer holds no connection; the call
\* closed what it opened, and it opened a connection at most once however
\* many attempts it made (no close and reopen between attempts).
C31_ClosedOnTheWayOut ==
    ExecCalled =>
        /\ conn = "none"
        /\ lastCall.opens <= 1
        /\ lastCall.closes = lastCall.opens
        /\ (lastCall.attempts >= 1 /\ ~lastCall.env.connFails) => lastCall.opens = 1

C31_Witness ==
    /\ ExecCalled
    /\ lastCall.raised
    /\ lastCall.attempts = 2
    /\ lastCall.env.dumpFailAt = 1
    /\ lastCall.opens = 1
    /\ lastCall.closes = 1
    /\ conn = "none"

(***************************************************************************)
AddCalled == lastCall.op = "add_to_batch"

\* The last add_to_batch was given a table other than that of the buffer.
TableSwitched == lastCall.table0 # "None" /\ lastCall.table0 # lastCall.table

\* C24: after an add_to_batch in which no flush raised, the buffer holds
\* fewer than batch_size rows; when the table is that of the buffer, the call
\* flushed exactly if the buffer with the new row reached batch_size, a call
\* that flushed leaves the buffer empty and one that did not leaves the
\* buffer one row longer.
C24_FlushExactlyAtBatchSize ==
    (AddCalled /\ ~lastCall.failed) =>
        /\ Len(batch_data) < db_batch_size
        /\ ~TableSwitched =>
              /\ lastCall.flushed <=> Len(lastCall.data0) + 1 >= db_batch_size
              /\ lastCall.flushed => batch_data = <<>>
              /\ ~lastCall.flushed =>
                    /\ Len(batch_data) = Len(lastCall.data0) + 1
                    /\ SubSeq(batch_data, 1, Len(lastCall.data0)) = lastCall.data0

\* The second of two rows for one table, batch_size 2: the call flushed, the
\* buffer is empty and both rows are in the database.
C24_Witness ==
    /\ AddCalled
    /\ ~lastCall.failed
    /\ ~TableSwitched
    /\ db_batch_size = 2
    /\ Len(lastCall.data0) = 1
    /\ lastCall.flushed
    /\ batch_data = <<>>
    /\ IsCommitted(lastCall.data0[1])
    /\ Cardinality(DOMAIN committed) >= 2

\* C25: every row in the buffer was handed in for the buffer's table, and
\* every committed row is in the table it was handed in for; an add_to_batch
\* for another table that returned has taken the rows of the previous table
\* out of the buffer, each into the previous table or a dump file, before
\* appending; one that raised has changed neither the buffer nor its table.
C25_BufferOfOneTable ==
    /\ \A k \in 1..Len(batch_data) : submitted[batch_data[k]] = batch_table
    /\ \A p \in DOMAIN committed : p[2] \in DOMAIN submitted => p[1] = submitted[p[2]]
    /\ (AddCalled /\ TableSwitched /\ ~lastCall.raised) =>
          /\ batch_table = lastCall.table
          /\ \A k \in 1..Len(lastCall.data0) :
                /\ ~InBuffer(lastCall.data0[k])
                /\ \/ <<lastCall.table0, lastCall.data0[k]>> \in DOMAIN committed
                   \/ IsDumped(lastCall.data0[k])
    /\ (AddCalled /\ lastCall.raised) =>
          batch_data = lastCall.data0 /\ batch_table = lastCall.table0

\* A row for t2 follows a row for t1 with batch_size 2: the row of t1 is
\* committed to t1 and the buffer holds the new row alone.
C25_Witness ==
    /\ AddCalled
    /\ TableSwitched
    /\ ~lastCall.raised
    /\ db_batch_size = 2
    /\ Len(lastCall.data0) = 1
    /\ <<lastCall.table0, lastCall.data0[1]>> \in DOMAIN committed
    /\ Len(batch_data) = 1
    /\ submitted[batch_data[1]] = lastCall.table

\* C26: no add_to_batch and no flush_batch raises, whatever fails in the
\* flush, and a flush that failed has moved the batch out of the buffer:
\* after flush_batch the buffer is empty, after add_to_batch it holds fewer
\* than batch_size rows.
C26_BatchFailureNeverRaises ==
    /\ lastCall.op = "flush_batch" => ~lastCall.raised /\ batch_data = <<>>
    /\ AddCalled => ~lastCall.raised /\ Len(batch_data) < db_batch_size


\* The copies of a row in the database, over all tables.
RECURSIVE CommittedCopies(_, _)
CommittedCopies(ts, row) ==
    IF ts = {} THEN 0
    ELSE LET t == CHOOSE x \in ts : TRUE
         IN  BagCount(committed, <<t, row>>) + CommittedCopies(ts \ {t}, row)

OnlyCommitted(row) == CommittedCopies(Tables, row) = 1 /\ spilt[row] = 0
OnlySpilt(row) == CommittedCopies(Tables, row) = 0 /\ spilt[row] = 1

\* C35: a row that was buffered and that a flush has cleared from the buffer
\* is committed once and in no dump file, or in a dump file once and not
\* committed; and the rows of the batch a flush_batch call has cleared are
\* all committed or all spilt.
C35_FlushAllOrNothing ==
    /\ \A row \in buffered :
          ~InBuffer(row) => OnlyCommitted(row) \/ OnlySpilt(row)
    /\ (lastCall.op = "flush_batch" /\ lastCall.flushed) =>
          \/ \A k \in 1..Len(lastCall.data0) : OnlyCommitted(lastCall.data0[k])
          \/ \A k \in 1..Len(lastCall.data0) : OnlySpilt(lastCall.data0[k])

(***************************************************************************)
(* Reconciliation of the dump files.                                       *)
(***************************************************************************)
GatherCalled == lastCall.op = "gather_dump_data"

\* The copies of row r, as read from a CSV file, in the tables ts.
RECURSIVE Replayed(_, _)
Replayed(ts, r) ==
    IF ts = {} THEN 0
    ELSE LET t == CHOOSE x \in ts : TRUE
         IN  BagCount(committed, <<t, FromCsv(r)>>) + Replayed(ts \ {t}, r)

\* The number of times row r stands in the files FolderFiles[1..k] of
\* `folder` whose names match this database.
RECURSIVE OccMatching(_, _, _)
OccMatching(folder, r, k) ==
    IF k = 0 THEN 0
    ELSE (IF NameMatches(FolderFiles[k]) THEN Occ(folder[FolderFiles[k]], r) ELSE 0)
         + OccMatching(folder, r, k - 1)

Folder0 == Folder(lastCall.dumps0, lastCall.foreign0)

\* C27: while every pass deletes, no row has been inserted from the dump
\* files more often than it was written to them; a pass in which no insert
\* failed has inserted every row of every matching file once and, deleting,
\* has removed those files; a pass over a folder without files has changed
\* neither the database nor the folder.
C27_ReplayedExactlyOnce ==
    /\ (\A k \in 1..Len(passes) : passes[k]) =>
          \A r \in 1..MaxRows : Replayed(Tables, r) <= spilt[r]
    /\ (GatherCalled /\ ~lastCall.raised
            /\ \A file \in DOMAIN lastCall.plan : lastCall.plan[file] = 0) =>
          /\ \A r \in 1..(MaxRows + 1) :
                BagCount(committed, <<lastCall.table, FromCsv(r)>>)
                  = BagCount(lastCall.committed0, <<lastCall.table, FromCsv(r)>>)
                    + OccMatching(Folder0, r, Len(FolderFiles))
          /\ lastCall.delete_dumps =>
                \A k \in 1..Len(FolderFiles) :
                    NameMatches(FolderFiles[k]) =>
                        Folder(dumps, foreign)[FolderFiles[k]] = <<>>
    /\ (GatherCalled /\ \A file \in DOMAIN Folder0 : Folder0[file] = <<>>) =>
          /\ committed = lastCall.committed0
          /\ dumps = lastCall.dumps0
          /\ foreign = lastCall.foreign0

\* C28: a row inserted from a dump file is in the table it was handed to
\* add_to_batch for, and the files of other databases are left alone: no
\* pass changes them and no row of theirs is in this database.
C28_ReplayIntoOwnTable ==
    /\ \A r \in DOMAIN submitted : \A t \in Tables :
          <<t, FromCsv(r)>> \in DOMAIN committed => t = submitted[r]
    /\ \A t \in Tables : <<t, FromCsv(ForeignRow)>> \notin DOMAIN committed
    /\ GatherCalled => foreign = lastCall.foreign0


\* In the last pass the insert of a row of a file that was replayed failed
\* on every attempt.
ReplayFailed ==
    /\ GatherCalled
    /\ \E file \in DOMAIN lastCall.plan : lastCall.plan[file] # 0 /\ NameMatches(file)

\* No file of the folder gained a row in the last pass.
NoNewDump ==
    \A file \in DOMAIN Folder0 :
        Folder(dumps, foreign)[file] \in {Folder0[file], <<>>}

\* C32: a pass of gather_dump_data in which the insert of a row failed after
\* its retries has written no row to any dump file and has raised to its
\* caller.
C32_ReplayFailureRaised ==
    ReplayFailed => NoNewDump /\ lastCall.raised

\* The files of the folder before the last pass that the pass replayed.
ReplayedFiles ==
    {file \in DOMAIN Folder0 : Folder0[file] # <<>> /\ NameMatches(file)}

\* Every row of the file was inserted into the table of the last pass.
AllInserted(file) ==
    \A k \in 1..Len(Folder0[file]) :
        BagCount(committed, <<lastCall.table, FromCsv(Folder0[file][k])>>)
          >= BagCount(lastCall.committed0, <<lastCall.table, FromCsv(Folder0[file][k])>>)
             + Occ(Folder0[file], Folder0[file][k])

\* C36: after a pass of gather_dump_data with delete_dumps, a file that is
\* gone was replayed without a failed row and all its rows are inserted; a
\* file with a row whose insert failed is still there as it was; and every
\* other replayed file, before or after a failed one, was replayed in full
\* and deleted.
C36_DeletedOnlyAfterFullReplay ==
    (GatherCalled /\ lastCall.delete_dumps /\ ~lastCall.raised) =>
        /\ \A file \in DOMAIN Folder0 :
              (Folder0[file] # <<>> /\ Folder(dumps, foreign)[file] = <<>>) =>
                  /\ file \in ReplayedFiles
                  /\ lastCall.plan[file] = 0
                  /\ AllInserted(file)
        /\ \A file \in ReplayedFiles :
              IF lastCall.plan[file] # 0
              THEN Folder(dumps, foreign)[file] = Folder0[file]
              ELSE AllInserted(file) /\ Folder(dumps, foreign)[file] = <<>>

\* The first file failed and stayed; the second was replayed and deleted.
C36_Witness ==
    /\ GatherCalled /\ lastCall.delete_dumps
    /\ lastCall.plan[OwnFile(1)] = 1
    /\ Folder0[OwnFile(2)] # <<>>
    /\ dumps[1] = lastCall.dumps0[1]
    /\ dumps[2] = <<>>
    /\ AllInserted(OwnFile(2))

(***************************************************************************)
(* Two threads in safe_execute.                                            *)
(***************************************************************************)
\* The driver errors thread t's call meets, as an environment of SafeExecute.
EnvOf(t) ==
    [connFails |-> FALSE, errs |-> [k \in 1..sx[t].nerr |-> "execute"],
     dumpFailAt |-> 0, hashes |-> [k \in 1..Len(sx[t].call.data.rows) |-> t]]

\* What the two calls leave when thread a's runs to its end before thread
\* b's begins, on a writer that has done nothing yet.
SerialOutcome(a, b) ==
    LET w0 == [conn |-> "none", committed |-> EmptyMap, dumps |-> NoDumps.dumps]
        ra == SafeExecute(w0, sx[a].call, EnvOf(a))
        rb == SafeExecute([conn |-> ra.conn, committed |-> ra.committed,
                           dumps |-> ra.dumps], sx[b].call, EnvOf(b))
    IN  [committed |-> rb.committed, dumps |-> rb.dumps,
         raised |-> (a :> ra.raised) @@ (b :> rb.raised)]

Outcome ==
    [committed |-> committed, dumps |-> dumps,
     raised |-> [t \in ExecThreads |-> sx[t].raised # "no"]]

BothDone == \A t \in ExecThreads : sx[t].pc = "done"

\* C29: between a failed attempt on a connection it opened and its
\* rollback, a thread still finds that connection open; and when both calls
\* have ended, database, dump files and the two results are those of one of
\* the two serial orders.
C29_SerializedByLock ==
    /\ \A t \in ExecThreads :
          (sx[t].pc = "handler" /\ sx[t].own) => (conn = "open" /\ connOwner = t)
    /\ BothDone => Outcome \in {SerialOutcome(1, 2), SerialOutcome(2, 1)}

====
